---------------------------- MODULE Spec2Model ----------------------------
(***************************************************************************)
(* Chunk manager of the association pipeline (lsst/ap):                    *)
(* ChunkManagerSingleImpl over a VisitTracker and a SubManager, with a     *)
(* Fifo of interested visits in every chunk descriptor and a block         *)
(* allocator.                                                              *)
(*                                                                         *)
(* The manager is modelled over the values its containers hold: a          *)
(* HashedSet is the set of its entries (at most NumEntries of them, found  *)
(* by id), a Fifo is the sequence of its elements, oldest first, a pointer *)
(* to an entry is the entry, a chunk handle is the id of its descriptor    *)
(* and the null pointer is Null.                                           *)
(*                                                                         *)
(* Callers: the calls made for one visit id are sequential (a visit whose  *)
(* waitForOwnership call is blocked makes no other call), except           *)
(* failVisit, which any thread may call at any time.                       *)
(***************************************************************************)
EXTENDS Integers, Sequences, FiniteSets, TLC

\* ------------------------------------------------------------------------
\* Bounds of the model
\* ------------------------------------------------------------------------
\* capacity of the visit tracker, HashedSet<Visit, MAX_VISITS_IN_FLIGHT>
MAX_VISITS_IN_FLIGHT == 3
\* number of distinct visit ids callers use
NumVisitIds == 4
\* number of visits that compete for a chunk
NumHandoffVisits == 3
\* capacity of the set of chunk descriptors
MAX_CHUNKS == 3
\* capacity of a descriptor's Fifo of interested parties
MAX_INTERESTED == 2
\* longest chunkIds list passed to startVisit
MaxList == 2
\* number of blocks in the block pool
NUM_BLOCKS == 2

VisitIds == 1..NumVisitIds
\* the chunk ids callers use
ChunkIds == {100, 101}
NullId == -1

\* ------------------------------------------------------------------------
\* HashedSet<EntryType, NumEntries>, as the set S of its entries
\* ------------------------------------------------------------------------
\* the null pointer
Null == [id |-> NullId]

\* HashedSet::find
find(S, id) ==
    IF \E e \in S : e.id = id THEN CHOOSE e \in S : e.id = id ELSE Null

\* HashedSet::space
space(S, NumEntries) == NumEntries - Cardinality(S)

\* HashedSet::insert: [set, ptr]; Ctor is the value EntryType()
insert(S, NumEntries, id, Ctor) ==
    IF space(S, NumEntries) = 0 THEN [set |-> S, ptr |-> Null]
    ELSE IF find(S, id) # Null THEN [set |-> S, ptr |-> Null]
    ELSE LET e == [Ctor EXCEPT !.id = id]
         IN  [set |-> S \cup {e}, ptr |-> e]

\* HashedSet::findOrInsert: [set, ptr, inserted]
findOrInsert(S, NumEntries, id, Ctor) ==
    LET f == find(S, id)
    IN  IF f # Null THEN [set |-> S, ptr |-> f, inserted |-> FALSE]
        ELSE IF space(S, NumEntries) = 0
        THEN [set |-> S, ptr |-> Null, inserted |-> TRUE]
        ELSE LET e == [Ctor EXCEPT !.id = id]
             IN  [set |-> S \cup {e}, ptr |-> e, inserted |-> TRUE]

\* fault: erase reports the entry found and leaves it in the set
eraseKeeps(S, id) == [set |-> S, found |-> find(S, id) # Null]

\* HashedSet::erase: [set, found]
erase(S, id) ==
    LET f == find(S, id)
    IN  IF f = Null THEN [set |-> S, found |-> FALSE]
        ELSE [set |-> S \ {f}, found |-> TRUE]

\* an assignment through a pointer to entry old
Store(S, old, new) == (S \ {old}) \cup {new}

\* ------------------------------------------------------------------------
\* 64-bit unsigned arithmetic on bit vectors
\* ------------------------------------------------------------------------
\* a word is the sequence of its 64 bits, bit i at index i + 1
WordBits == 64

\* static_cast<uint64_t>(int64_t): two's complement bits of a small integer
RECURSIVE ToBits(_, _)
ToBits(n, i) ==
    IF i >= WordBits THEN << >>
    ELSE << IF n >= 0
            THEN IF i < 31 THEN (n \div (2 ^ i)) % 2 ELSE 0
            ELSE IF i < 31 THEN 1 - (((-n - 1) \div (2 ^ i)) % 2) ELSE 1 >>
         \o ToBits(n, i + 1)

\* ~a
RECURSIVE Not64(_, _)
Not64(a, i) ==
    IF i >= WordBits THEN << >> ELSE <<1 - a[i + 1]>> \o Not64(a, i + 1)

\* a << n
RECURSIVE Shl64(_, _, _)
Shl64(a, n, i) ==
    IF i >= WordBits THEN << >>
    ELSE << IF i >= n THEN a[i - n + 1] ELSE 0 >> \o Shl64(a, n, i + 1)

\* a >> n
RECURSIVE Shr64(_, _, _)
Shr64(a, n, i) ==
    IF i >= WordBits THEN << >>
    ELSE << IF i + n < WordBits THEN a[i + n + 1] ELSE 0 >> \o Shr64(a, n, i + 1)

\* a ^ b
RECURSIVE Xor64(_, _, _)
Xor64(a, b, i) ==
    IF i >= WordBits THEN << >>
    ELSE <<(a[i + 1] + b[i + 1]) % 2>> \o Xor64(a, b, i + 1)

\* a + b modulo 2^64 (ripple carry c)
RECURSIVE Add64(_, _, _, _)
Add64(a, b, i, c) ==
    IF i >= WordBits THEN << >>
    ELSE <<(a[i + 1] + b[i + 1] + c) % 2>>
         \o Add64(a, b, i + 1, (a[i + 1] + b[i + 1] + c) \div 2)

\* key * 21 modulo 2^64, 21 = 1 + 4 + 16
Mul21(a) == Add64(Add64(a, Shl64(a, 2, 0), 0, 0), Shl64(a, 4, 0), 0, 0)

\* fault: the first shift of the mix is by 17
hash64ShiftOff(key) ==
    LET k1 == Add64(Not64(key, 0), Shl64(key, 17, 0), 0, 0)
        k2 == Xor64(k1, Shr64(k1, 31, 0), 0)
        k3 == Mul21(k2)
        k4 == Xor64(k3, Shr64(k3, 11, 0), 0)
        k5 == Add64(k4, Shl64(k4, 6, 0), 0, 0)
        k6 == Xor64(k5, Shr64(k5, 22, 0), 0)
    IN  SubSeq(k6, 1, 32)

\* uint32_t hash(uint64_t key): Thomas Wang's 64 to 32 bit mix, the result
\* being the low 32 bits (static_cast<uint32_t>)
hash64(key) ==
    LET k1 == Add64(Not64(key, 0), Shl64(key, 18, 0), 0, 0)
        k2 == Xor64(k1, Shr64(k1, 31, 0), 0)
        k3 == Mul21(k2)
        k4 == Xor64(k3, Shr64(k3, 11, 0), 0)
        k5 == Add64(k4, Shl64(k4, 6, 0), 0, 0)
        k6 == Xor64(k5, Shr64(k5, 22, 0), 0)
    IN  SubSeq(k6, 1, 32)

\* uint32_t hash(int64_t key)
hash(id) == hash64(ToBits(id, 0))

\* h & m for a 32-bit h given by its bits and a mask m below 2^31
RECURSIVE MaskBits(_, _, _)
MaskBits(h, m, i) ==
    IF i > 30 THEN 0
    ELSE h[i + 1] * ((m \div (2 ^ i)) % 2) * (2 ^ i) + MaskBits(h, m, i + 1)

\* hash(id) & (2*NumEntries - 1)
Bucket(id, NumEntries) == MaskBits(hash(id), 2 * NumEntries - 1, 0)

\* ------------------------------------------------------------------------
\* HashedSet<EntryType, NumEntries> as it is laid out: a record
\*   [hashTable, entries, free, size]
\* with entries [id, nextInChain]; an entry is named by its index
\* ------------------------------------------------------------------------
\* log2 of the capacity of the set, and the number of ids its callers use
LogSetEntries == 1
NumSetIds == 4

SetEntries == 2 ^ LogSetEntries
SetIds == 1..NumSetIds

\* the bucket of every id of SetIds, bucket of id k at index k
RECURSIVE BucketTable(_, _)
BucketTable(k, n) ==
    IF k > n THEN << >>
    ELSE <<Bucket(k, SetEntries)>> \o BucketTable(k + 1, n)

SetBucket == BucketTable(1, NumSetIds)

\* HashedSet::HashedSet(); ctorId is the id EntryType() gives an entry,
\* which is all the last entry gets
HashedSet_HashedSet(NumEntries, ctorId) ==
    [hashTable |-> [b \in 0..(2 * NumEntries - 1) |-> -1],
     entries   |-> [i \in 0..(NumEntries - 1) |->
                        IF i < NumEntries - 1
                        THEN [id |-> -1, nextInChain |-> i + 1]
                        ELSE [id |-> ctorId, nextInChain |-> -1]],
     free      |-> 0,
     size      |-> 0]

\* fault: the walk compares no id and so never finds an entry
RECURSIVE ChainWalkBlind(_, _, _, _)
ChainWalkBlind(entries, i, last, id) ==
    IF i < 0 THEN [found |-> -1, last |-> last]
    ELSE ChainWalkBlind(entries, entries[i].nextInChain, i, id)

\* the walk along the chain of a bucket that doFind, insert, findOrInsert
\* and erase make: the index of the entry that holds id, or -1, and the
\* entry visited before it
RECURSIVE ChainWalk(_, _, _, _)
ChainWalk(entries, i, last, id) ==
    IF i < 0 THEN [found |-> -1, last |-> last]
    ELSE IF entries[i].id = id THEN [found |-> i, last |-> last]
    ELSE ChainWalk(entries, entries[i].nextInChain, i, id)

\* HashedSet::doFind
HashedSet_doFind(hs, id) ==
    ChainWalk(hs.entries, hs.hashTable[SetBucket[id]], -1, id).found

\* the end of insert and findOrInsert: free entry c is taken off the free
\* list, linked at the end of the chain of the bucket and constructed
LinkNew(hs, bucket, last, id) ==
    LET c  == hs.free
        e1 == IF last < 0 THEN hs.entries
              ELSE [hs.entries EXCEPT ![last].nextInChain = c]
    IN  [hashTable |-> IF last < 0 THEN [hs.hashTable EXCEPT ![bucket] = c]
                       ELSE hs.hashTable,
         entries   |-> [e1 EXCEPT ![c] = [id |-> id, nextInChain |-> -1]],
         free      |-> hs.entries[c].nextInChain,
         size      |-> hs.size + 1]

\* HashedSet::insert: [hs, ptr]
HashedSet_insert(hs, id) ==
    IF hs.free < 0 THEN [hs |-> hs, ptr |-> -1]
    ELSE LET w == ChainWalk(hs.entries, hs.hashTable[SetBucket[id]], -1, id)
         IN  IF w.found >= 0 THEN [hs |-> hs, ptr |-> -1]
             ELSE [hs |-> LinkNew(hs, SetBucket[id], w.last, id), ptr |-> hs.free]

\* fault: findOrInsert looks for a free entry before it walks the chain
HashedSet_findOrInsertFreeFirst(hs, id) ==
    IF hs.free < 0 THEN [hs |-> hs, ptr |-> -1, inserted |-> TRUE]
    ELSE LET w == ChainWalk(hs.entries, hs.hashTable[SetBucket[id]], -1, id)
         IN  IF w.found >= 0 THEN [hs |-> hs, ptr |-> w.found, inserted |-> FALSE]
             ELSE [hs |-> LinkNew(hs, SetBucket[id], w.last, id),
                   ptr |-> hs.free, inserted |-> TRUE]

\* HashedSet::findOrInsert: [hs, ptr, inserted]
HashedSet_findOrInsert(hs, id) ==
    LET w == ChainWalk(hs.entries, hs.hashTable[SetBucket[id]], -1, id)
    IN  IF w.found >= 0 THEN [hs |-> hs, ptr |-> w.found, inserted |-> FALSE]
        ELSE IF hs.free < 0 THEN [hs |-> hs, ptr |-> -1, inserted |-> TRUE]
        ELSE [hs |-> LinkNew(hs, SetBucket[id], w.last, id),
              ptr |-> hs.free, inserted |-> TRUE]

\* fault: erase of the head of a chain empties the bucket
HashedSet_eraseDropsChain(hs, id) ==
    LET w == ChainWalk(hs.entries, hs.hashTable[SetBucket[id]], -1, id)
        i == w.found
    IN  IF i < 0 THEN [hs |-> hs, found |-> FALSE]
        ELSE LET nxt == hs.entries[i].nextInChain
                 e1  == IF w.last < 0 THEN hs.entries
                        ELSE [hs.entries EXCEPT ![w.last].nextInChain = nxt]
             IN  [hs |-> [hashTable |-> IF w.last < 0
                                        THEN [hs.hashTable EXCEPT ![SetBucket[id]] = -1]
                                        ELSE hs.hashTable,
                          entries   |-> [e1 EXCEPT ![i].id = -1,
                                                   ![i].nextInChain = hs.free],
                          free      |-> i,
                          size      |-> hs.size - 1],
                  found |-> TRUE]

\* fault: erase leaves _free where it was, the erased entry is lost
HashedSet_eraseLosesEntry(hs, id) ==
    LET w == ChainWalk(hs.entries, hs.hashTable[SetBucket[id]], -1, id)
        i == w.found
    IN  IF i < 0 THEN [hs |-> hs, found |-> FALSE]
        ELSE LET nxt == hs.entries[i].nextInChain
                 e1  == IF w.last < 0 THEN hs.entries
                        ELSE [hs.entries EXCEPT ![w.last].nextInChain = nxt]
             IN  [hs |-> [hashTable |-> IF w.last < 0
                                        THEN [hs.hashTable EXCEPT ![SetBucket[id]] = nxt]
                                        ELSE hs.hashTable,
                          entries   |-> [e1 EXCEPT ![i].id = -1,
                                                   ![i].nextInChain = hs.free],
                          free      |-> hs.free,
                          size      |-> hs.size - 1],
                  found |-> TRUE]

\* fault: erase leaves the id in the entry it returns to the free list
HashedSet_eraseKeepsId(hs, id) ==
    LET w == ChainWalk(hs.entries, hs.hashTable[SetBucket[id]], -1, id)
        i == w.found
    IN  IF i < 0 THEN [hs |-> hs, found |-> FALSE]
        ELSE LET nxt == hs.entries[i].nextInChain
                 e1  == IF w.last < 0 THEN hs.entries
                        ELSE [hs.entries EXCEPT ![w.last].nextInChain = nxt]
             IN  [hs |-> [hashTable |-> IF w.last < 0
                                        THEN [hs.hashTable EXCEPT ![SetBucket[id]] = nxt]
                                        ELSE hs.hashTable,
                          entries   |-> [e1 EXCEPT ![i].nextInChain = hs.free],
                          free      |-> i,
                          size      |-> hs.size - 1],
                  found |-> TRUE]

\* HashedSet::erase: [hs, found]
HashedSet_erase(hs, id) ==
    LET w == ChainWalk(hs.entries, hs.hashTable[SetBucket[id]], -1, id)
        i == w.found
    IN  IF i < 0 THEN [hs |-> hs, found |-> FALSE]
        ELSE LET nxt == hs.entries[i].nextInChain
                 e1  == IF w.last < 0 THEN hs.entries
                        ELSE [hs.entries EXCEPT ![w.last].nextInChain = nxt]
             IN  [hs |-> [hashTable |-> IF w.last < 0
                                        THEN [hs.hashTable EXCEPT ![SetBucket[id]] = nxt]
                                        ELSE hs.hashTable,
                          entries   |-> [e1 EXCEPT ![i].id = -1,
                                                   ![i].nextInChain = hs.free],
                          free      |-> i,
                          size      |-> hs.size - 1],
                  found |-> TRUE]

\* ------------------------------------------------------------------------
\* Bitset<Word, NumBits> as it is laid out: the sequence of its words,
\* word i at index i + 1; a word is the sequence of its bits, bit j at
\* index j + 1. Word is uint8_t.
\* ------------------------------------------------------------------------
\* BitTraits<uint8_t>
BITS_PER_WORD == 8
BITS_PER_WORD_LOG2 == 3

\* the number of bits of the bitset and the largest numBitsToSet passed
NumBits == 10
MaxSet == 3

\* Bitset::NUM_WORDS
NUM_WORDS == (NumBits + (BITS_PER_WORD - 1)) \div (2 ^ BITS_PER_WORD_LOG2)

\* BitTraits<uint8_t>::WORD_MASK
WORD_MASK == [j \in 1..BITS_PER_WORD |-> 1]

\* detail::populationCount
RECURSIVE populationCount(_)
populationCount(w) ==
    IF w = << >> THEN 0 ELSE Head(w) + populationCount(Tail(w))

\* detail::maskForBit
maskForBit(i) == [j \in 1..BITS_PER_WORD |-> IF j - 1 = i % BITS_PER_WORD THEN 1 ELSE 0]

\* w - 1 and ~w on a word, w & v and w | v
WordMinusOne(w) ==
    [j \in 1..BITS_PER_WORD |->
        IF \A k \in 1..(j - 1) : w[k] = 0 THEN 1 - w[j] ELSE w[j]]
WordNot(w) == [j \in 1..BITS_PER_WORD |-> 1 - w[j]]
WordAnd(w, v) == [j \in 1..BITS_PER_WORD |-> w[j] * v[j]]
WordOr(w, v) == [j \in 1..BITS_PER_WORD |-> IF w[j] + v[j] > 0 THEN 1 ELSE 0]

\* detail::set, the first loop: the zeroes still missing after words
\* i .. limit - 1 were counted, and the index the loop stopped at
RECURSIVE CountWords(_, _, _, _)
CountWords(words, i, limit, zeroes) ==
    IF i < limit /\ zeroes > 0
    THEN CountWords(words, i + 1, limit,
                    zeroes - (BITS_PER_WORD
                              - populationCount(WordAnd(words[i + 1], WORD_MASK))))
    ELSE [i |-> i, zeroes |-> zeroes]

\* fault: the count takes the padding bits of the last word for free bits
CountZeroesPadded(words, numBitsToSet, numBits) ==
    CountWords(words, 0, (numBits + (BITS_PER_WORD - 1)) \div (2 ^ BITS_PER_WORD_LOG2),
               numBitsToSet).zeroes

\* detail::set, the count: the zeroes still missing when every word was
\* counted, the bits of the last word from bit numBits on taken for ones
CountZeroes(words, numBitsToSet, numBits) ==
    LET special == IF numBits % BITS_PER_WORD > 0 THEN 1 ELSE 0
        last    == WordNot(WordMinusOne(maskForBit(numBits)))
        nwords  == (numBits + (BITS_PER_WORD - 1)) \div (2 ^ BITS_PER_WORD_LOG2)
        c       == CountWords(words, 0, nwords - special, numBitsToSet)
    IN  IF c.zeroes > 0 /\ special = 1
        THEN c.zeroes - (BITS_PER_WORD
                         - populationCount(
                               WordOr(WordAnd(words[c.i + 1], WORD_MASK), last)))
        ELSE c.zeroes

\* fault: the inner loop goes on setting zero bits after the last index
\* was written
RECURSIVE SetInWordNoBreak(_, _, _, _, _)
SetInWordNoBreak(w, i, j, indexes, numBitsToSet) ==
    IF j >= BITS_PER_WORD THEN [w |-> w, indexes |-> indexes]
    ELSE IF w[j + 1] = 0
    THEN SetInWordNoBreak([w EXCEPT ![j + 1] = 1], i, j + 1,
                          IF Len(indexes) < numBitsToSet
                          THEN Append(indexes, i * (2 ^ BITS_PER_WORD_LOG2) + j)
                          ELSE indexes,
                          numBitsToSet)
    ELSE SetInWordNoBreak(w, i, j + 1, indexes, numBitsToSet)

\* detail::set, the inner loop over the bits j .. of word i: [w, indexes]
RECURSIVE SetInWord(_, _, _, _, _)
SetInWord(w, i, j, indexes, numBitsToSet) ==
    IF j >= BITS_PER_WORD THEN [w |-> w, indexes |-> indexes]
    ELSE IF w[j + 1] = 0
    THEN LET ix == Append(indexes, i * (2 ^ BITS_PER_WORD_LOG2) + j)
             w1 == [w EXCEPT ![j + 1] = 1]
         IN  IF Len(ix) = numBitsToSet THEN [w |-> w1, indexes |-> ix]
             ELSE SetInWord(w1, i, j + 1, ix, numBitsToSet)
    ELSE SetInWord(w, i, j + 1, indexes, numBitsToSet)

\* detail::set, the second loop from word i on: [words, indexes]; a read
\* past the last word is reported as the index -1
RECURSIVE SetWords(_, _, _, _)
SetWords(words, i, indexes, numBitsToSet) ==
    IF Len(indexes) >= numBitsToSet THEN [words |-> words, indexes |-> indexes]
    ELSE IF i >= Len(words) THEN [words |-> words, indexes |-> Append(indexes, -1)]
    ELSE LET w == WordAnd(words[i + 1], WORD_MASK)
         IN  IF w = WORD_MASK THEN SetWords(words, i + 1, indexes, numBitsToSet)
             ELSE LET r == SetInWord(w, i, 0, indexes, numBitsToSet)
                  IN  SetWords([words EXCEPT ![i + 1] = r.w], i + 1,
                               r.indexes, numBitsToSet)

\* fault: reset of the whole word of the last index
detail_resetWord(words, indexes, numBits) ==
    [ok |-> TRUE,
     words |-> IF indexes = << >> THEN words
               ELSE [words EXCEPT ![(indexes[Len(indexes)] \div BITS_PER_WORD) + 1] =
                        [j \in 1..BITS_PER_WORD |-> 0]]]

\* detail::reset: [ok, words]; ok is false when the assertion on an index
\* fails
RECURSIVE detail_reset(_, _, _)
detail_reset(words, indexes, numBits) ==
    IF indexes = << >> THEN [ok |-> TRUE, words |-> words]
    ELSE LET j == Head(indexes)
             wordForBit == j \div (2 ^ BITS_PER_WORD_LOG2)
         IN  IF ~(j >= 0 /\ j < numBits) THEN [ok |-> FALSE, words |-> words]
             ELSE detail_reset(
                      [words EXCEPT ![wordForBit + 1] = WordAnd(@, WordNot(maskForBit(j)))],
                      Tail(indexes), numBits)

\* fault: set without the count of the zero bits
detail_setUncounted(words, numBitsToSet, numBits) ==
    LET r == SetWords(words, 0, << >>, numBitsToSet)
    IN  [ok |-> TRUE, words |-> r.words, indexes |-> r.indexes]

\* detail::set: [ok, words, indexes]
detail_set(words, numBitsToSet, numBits) ==
    IF CountZeroes(words, numBitsToSet, numBits) > 0
    THEN [ok |-> FALSE, words |-> words, indexes |-> << >>]
    ELSE LET r == SetWords(words, 0, << >>, numBitsToSet)
         IN  [ok |-> TRUE, words |-> r.words, indexes |-> r.indexes]

\* ------------------------------------------------------------------------
\* Fifo<NumEntries>, as the sequence of its elements
\* ------------------------------------------------------------------------
\* Fifo::Fifo()
FifoCtor == << >>

\* Fifo::empty, Fifo::full
empty(f) == Len(f) = 0
full(f) == Len(f) = MAX_INTERESTED

\* Fifo::enqueue, on a Fifo that is not full
enqueue(f, elt) == Append(f, elt)

\* fault: dequeue removes the newest element instead of the oldest
dequeueNewest(f) == [fifo |-> SubSeq(f, 1, Len(f) - 1), elt |-> f[Len(f)]]

\* Fifo::dequeue, on a Fifo that is not empty: [fifo, elt]
dequeue(f) == [fifo |-> Tail(f), elt |-> Head(f)]

\* The Fifo with its ring buffer: [buffer, size, back, front], the buffer a
\* tuple whose element i + 1 is _buffer[i]
LogFifoEntries == 1
NumFifoValues == 3
FifoEntries == 2 ^ LogFifoEntries
FifoValues == 1..NumFifoValues

\* Fifo::clear
Fifo_clear(f) == [f EXCEPT !.size = 0, !.back = 0, !.front = 0]

\* Fifo::empty, Fifo::full
Fifo_empty(f) == f.size = 0
Fifo_full(f) == f.size = FifoEntries

\* i & (NumEntries - 1), NumEntries a power of two
RingIndex(i) == i % FifoEntries

\* fault: enqueue writes the element before it finds the Fifo full
Fifo_enqueueWritesFirst(f, elt) ==
    IF f.size = FifoEntries
    THEN [exc |-> "LengthError", fifo |-> [f EXCEPT !.buffer[f.back + 1] = elt]]
    ELSE [exc |-> "none",
          fifo |-> [f EXCEPT !.buffer[f.back + 1] = elt,
                             !.back = RingIndex(f.back + 1),
                             !.size = f.size + 1]]

\* Fifo::enqueue: [exc, fifo]
Fifo_enqueue(f, elt) ==
    LET sz == f.size
    IN  IF sz = FifoEntries THEN [exc |-> "LengthError", fifo |-> f]
        ELSE LET i == f.back
             IN  [exc |-> "none",
                  fifo |-> [f EXCEPT !.buffer[i + 1] = elt,
                                     !.back = RingIndex(i + 1),
                                     !.size = sz + 1]]

\* fault: dequeue leaves _front where it is
Fifo_dequeueStuck(f) ==
    IF f.size = 0 THEN [exc |-> "LengthError", fifo |-> f, elt |-> NullId]
    ELSE [exc |-> "none", fifo |-> [f EXCEPT !.size = f.size - 1],
          elt |-> f.buffer[f.front + 1]]

\* Fifo::dequeue: [exc, fifo, elt]
Fifo_dequeue(f) ==
    LET sz == f.size
    IN  IF sz = 0 THEN [exc |-> "LengthError", fifo |-> f, elt |-> NullId]
        ELSE LET i == f.front
             IN  [exc |-> "none",
                  fifo |-> [f EXCEPT !.front = RingIndex(i + 1), !.size = sz - 1],
                  elt |-> f.buffer[i + 1]]

\* ------------------------------------------------------------------------
\* Entries of the two sets
\* ------------------------------------------------------------------------
\* Visit::Visit()
VisitCtor == [id |-> NullId, failed |-> FALSE]

\* ChunkDescriptor::ChunkDescriptor(); blocks holds the offsets
\* _blocks[0 .. _numBlocks)
DescCtor ==
    [id |-> NullId, visitId |-> NullId, usable |-> FALSE,
     interestedParties |-> FifoCtor, blocks |-> << >>]

\* ------------------------------------------------------------------------
\* Block allocator: bits[i] is bit i of the Bitset of NUM_BLOCKS bits
\* ------------------------------------------------------------------------
\* size of a block and offset of block 0 relative to the allocator
BLOCK_SIZE == 4
BlockBase == 8
MAX_BLOCKS_PER_CHUNK == 2

BlockIndexes == 0..(NUM_BLOCKS - 1)

\* the n lowest zero bits of the bitmap at or after bit i, ascending
RECURSIVE FirstZeroes(_, _, _)
FirstZeroes(b, i, n) ==
    IF n = 0 \/ i >= NUM_BLOCKS THEN << >>
    ELSE IF b[i] THEN FirstZeroes(b, i + 1, n)
    ELSE <<i>> \o FirstZeroes(b, i + 1, n - 1)

\* detail::set: [ok, bits, indexes]
BitsetSet(b, n) ==
    IF Cardinality({i \in BlockIndexes : ~b[i]}) < n
    THEN [ok |-> FALSE, bits |-> b, indexes |-> << >>]
    ELSE LET ix == FirstZeroes(b, 0, n)
         IN  [ok |-> TRUE,
              bits |-> [i \in BlockIndexes |-> b[i] \/ (\E j \in 1..Len(ix) : ix[j] = i)],
              indexes |-> ix]

\* detail::reset
BitsetReset(b, ix) ==
    [i \in BlockIndexes |-> b[i] /\ ~(\E j \in 1..Len(ix) : ix[j] = i)]

\* BlockAllocator::allocate(blockOffsets, n): [exc, bits, offsets]
BlockAllocate(b, n) ==
    IF n < 0 \/ n > MAX_BLOCKS_PER_CHUNK
    THEN [exc |-> "OutOfRange", bits |-> b, offsets |-> << >>]
    ELSE LET r == BitsetSet(b, n)
         IN  IF ~r.ok THEN [exc |-> "bad_alloc", bits |-> b, offsets |-> << >>]
             ELSE [exc |-> "none", bits |-> r.bits,
                   offsets |-> [j \in 1..n |-> BlockBase + r.indexes[j] * BLOCK_SIZE]]

\* fault: free leaves the bits of the blocks set
BlockFreeNothing(b, offsets) == b

\* BlockAllocator::free(blockOffsets, n)
BlockFree(b, offsets) ==
    BitsetReset(b, [j \in 1..Len(offsets) |-> (offsets[j] - BlockBase) \div BLOCK_SIZE])

\* ------------------------------------------------------------------------
\* State
\* ------------------------------------------------------------------------
VARIABLES
    visits,     \* ChunkManagerSingleImpl::_visits, the VisitTracker
    chunks,     \* SubManager::_chunks, the set of chunk descriptors
    bits,       \* the bitmap of SubManager::_allocator
    waiting,    \* per visit id: the waitForOwnership call blocked on _ownerCondition
    lastOp      \* the last call made on the manager and how it returned

vars == <<visits, chunks, bits, waiting, lastOp>>

\* entry is the toWaitFor list the blocked call was made with, notified
\* tells that _ownerCondition was notified since the call blocked
NotWaiting ==
    [blocked |-> FALSE, notified |-> FALSE, entry |-> << >>,
     toWaitFor |-> << >>, toRead |-> << >>]

\* the record of a call: the visit, the rollback flag, the value returned
\* or the exception thrown, the output vectors (chunks by id), the
\* Chunk::commit and Chunk::rollback calls made and whether
\* _ownerCondition.notifyAll() was called
Call(op, v, rb, res, tr, tw, ev, nt) ==
    [op |-> op, visit |-> v, rollback |-> rb, result |-> res,
     toRead |-> tr, toWaitFor |-> tw, events |-> ev, notified |-> nt]

Init ==
    /\ visits = {}
    /\ chunks = {}
    /\ bits = [i \in BlockIndexes |-> FALSE]
    /\ waiting = [v \in VisitIds |-> NotWaiting]
    /\ lastOp = Call("init", NullId, FALSE, "ok", << >>, << >>, {}, FALSE)

\* ------------------------------------------------------------------------
\* VisitTracker
\* ------------------------------------------------------------------------
\* fault: isValid without the test of the failed flag
isRegistered(tracker, visitId) == find(tracker, visitId) # Null

\* VisitTracker::isValid
isValid(tracker, visitId) ==
    LET v == find(tracker, visitId)
    IN  IF v = Null THEN FALSE ELSE ~v.failed

\* ChunkManagerSingleImpl::isVisitInFlight
isVisitInFlight(visitId) == isValid(visits, visitId)

\* fault: registerVisit without the test for a visit already in flight
registerVisitUnchecked(visitId) ==
    /\ ~waiting[visitId].blocked
    /\ IF space(visits, MAX_VISITS_IN_FLIGHT) = 0
       THEN /\ visits' = visits
            /\ lastOp' = Call("registerVisit", visitId, FALSE, "LengthError",
                              << >>, << >>, {}, FALSE)
       ELSE /\ visits' = insert(visits, MAX_VISITS_IN_FLIGHT, visitId, VisitCtor).set
            /\ lastOp' = Call("registerVisit", visitId, FALSE, "ok",
                              << >>, << >>, {}, FALSE)
    /\ UNCHANGED <<chunks, bits, waiting>>

\* fault: registerVisit without the test for a full tracker
registerVisitUncapped(visitId) ==
    /\ ~waiting[visitId].blocked
    /\ IF find(visits, visitId) # Null
       THEN /\ visits' = visits
            /\ lastOp' = Call("registerVisit", visitId, FALSE, "InvalidParameter",
                              << >>, << >>, {}, FALSE)
       ELSE /\ visits' = insert(visits, MAX_VISITS_IN_FLIGHT, visitId, VisitCtor).set
            /\ lastOp' = Call("registerVisit", visitId, FALSE, "ok",
                              << >>, << >>, {}, FALSE)
    /\ UNCHANGED <<chunks, bits, waiting>>

\* ChunkManagerSingleImpl::registerVisit
registerVisit(visitId) ==
    /\ ~waiting[visitId].blocked
    /\ IF find(visits, visitId) # Null
       THEN /\ visits' = visits
            /\ lastOp' = Call("registerVisit", visitId, FALSE, "InvalidParameter",
                              << >>, << >>, {}, FALSE)
       ELSE IF space(visits, MAX_VISITS_IN_FLIGHT) = 0
       THEN /\ visits' = visits
            /\ lastOp' = Call("registerVisit", visitId, FALSE, "LengthError",
                              << >>, << >>, {}, FALSE)
       ELSE /\ visits' = insert(visits, MAX_VISITS_IN_FLIGHT, visitId, VisitCtor).set
            /\ lastOp' = Call("registerVisit", visitId, FALSE, "ok",
                              << >>, << >>, {}, FALSE)
    /\ UNCHANGED <<chunks, bits, waiting>>

\* fault: failVisit ends the waitForOwnership call of the visit
failVisitCancels(visitId) ==
    /\ LET v == find(visits, visitId)
       IN  visits' = IF v # Null THEN Store(visits, v, [v EXCEPT !.failed = TRUE])
                     ELSE visits
    /\ waiting' = [waiting EXCEPT ![visitId] = NotWaiting]
    /\ lastOp' = Call("failVisit", visitId, FALSE, "ok", << >>, << >>, {}, FALSE)
    /\ UNCHANGED <<chunks, bits>>

\* fault: failVisit flips the flag of the visit
failVisitToggles(visitId) ==
    /\ LET v == find(visits, visitId)
       IN  visits' = IF v # Null THEN Store(visits, v, [v EXCEPT !.failed = ~v.failed])
                     ELSE visits
    /\ lastOp' = Call("failVisit", visitId, FALSE, "ok", << >>, << >>, {}, FALSE)
    /\ UNCHANGED <<chunks, bits, waiting>>

\* ChunkManagerSingleImpl::failVisit
failVisit(visitId) ==
    /\ LET v == find(visits, visitId)
       IN  visits' = IF v # Null THEN Store(visits, v, [v EXCEPT !.failed = TRUE])
                     ELSE visits
    /\ lastOp' = Call("failVisit", visitId, FALSE, "ok", << >>, << >>, {}, FALSE)
    /\ UNCHANGED <<chunks, bits, waiting>>

\* ------------------------------------------------------------------------
\* SubManager
\* ------------------------------------------------------------------------
\* SubManager::space
DataSpace(ch) == space(ch, MAX_CHUNKS)

\* fault: createOrRegisterInterest assigns _visitId before it tests whether
\* the descriptor is new
RECURSIVE createOrTakeOver(_, _, _, _, _, _)
createOrTakeOver(ch, toRead, toWaitFor, visitId, chunkIds, k) ==
    IF k > Len(chunkIds)
    THEN [chunks |-> ch, toRead |-> toRead, toWaitFor |-> toWaitFor, exc |-> "none"]
    ELSE LET p == findOrInsert(ch, MAX_CHUNKS, chunkIds[k], DescCtor)
         IN  IF p.inserted
             THEN IF p.ptr = Null
                  THEN [chunks |-> ch, toRead |-> toRead, toWaitFor |-> toWaitFor,
                        exc |-> "bad_alloc"]
                  ELSE createOrTakeOver(
                           Store(p.set, p.ptr,
                                 [p.ptr EXCEPT !.visitId = visitId, !.usable = FALSE]),
                           Append(toRead, p.ptr.id), toWaitFor, visitId, chunkIds, k + 1)
             ELSE IF full(p.ptr.interestedParties)
                  THEN [chunks |-> ch, toRead |-> toRead, toWaitFor |-> toWaitFor,
                        exc |-> "LengthError"]
                  ELSE createOrTakeOver(
                           Store(ch, p.ptr,
                                 [p.ptr EXCEPT !.visitId = visitId,
                                               !.interestedParties = enqueue(@, visitId)]),
                           toRead, Append(toWaitFor, p.ptr.id), visitId, chunkIds, k + 1)

\* SubManager::createOrRegisterInterest, from element k of chunkIds:
\* [chunks, toRead, toWaitFor, exc]; an exception keeps what the earlier
\* iterations did
RECURSIVE createOrRegisterInterest(_, _, _, _, _, _)
createOrRegisterInterest(ch, toRead, toWaitFor, visitId, chunkIds, k) ==
    IF k > Len(chunkIds)
    THEN [chunks |-> ch, toRead |-> toRead, toWaitFor |-> toWaitFor, exc |-> "none"]
    ELSE LET p == findOrInsert(ch, MAX_CHUNKS, chunkIds[k], DescCtor)
         IN  IF p.inserted
             THEN IF p.ptr = Null
                  THEN [chunks |-> ch, toRead |-> toRead, toWaitFor |-> toWaitFor,
                        exc |-> "bad_alloc"]
                  ELSE createOrRegisterInterest(
                           Store(p.set, p.ptr,
                                 [p.ptr EXCEPT !.visitId = visitId, !.usable = FALSE]),
                           Append(toRead, p.ptr.id), toWaitFor, visitId, chunkIds, k + 1)
             ELSE IF full(p.ptr.interestedParties)
                  THEN [chunks |-> ch, toRead |-> toRead, toWaitFor |-> toWaitFor,
                        exc |-> "LengthError"]
                  ELSE createOrRegisterInterest(
                           Store(ch, p.ptr,
                                 [p.ptr EXCEPT !.interestedParties = enqueue(@, visitId)]),
                           toRead, Append(toWaitFor, p.ptr.id), visitId, chunkIds, k + 1)

\* fault: the while loop takes the first id it dequeues, valid or not
DrainFirstQueued(f, tracker, skipped) ==
    IF empty(f) THEN [fifo |-> f, successor |-> NullId, skipped |-> skipped]
    ELSE LET d == dequeue(f)
         IN  [fifo |-> d.fifo, successor |-> d.elt, skipped |-> skipped]

\* the while loop of relinquishOwnership on one Fifo, skipped being the
\* ids dequeued so far: [fifo, successor, skipped], successor NullId when
\* the Fifo was emptied without finding a valid visit
RECURSIVE DrainToSuccessor(_, _, _)
DrainToSuccessor(f, tracker, skipped) ==
    IF empty(f) THEN [fifo |-> f, successor |-> NullId, skipped |-> skipped]
    ELSE LET d == dequeue(f)
         IN  IF isValid(tracker, d.elt)
             THEN [fifo |-> d.fifo, successor |-> d.elt, skipped |-> skipped]
             ELSE DrainToSuccessor(d.fifo, tracker, Append(skipped, d.elt))

\* fault: relinquishOwnership leaves its for loop after the first descriptor
\* the visit owns
RECURSIVE relinquishFirstOwned(_, _, _, _, _, _, _, _)
relinquishFirstOwned(ch, b, change, events, visitId, rollback, tracker, todo) ==
    IF todo = {}
    THEN [chunks |-> ch, bits |-> b, change |-> change, events |-> events]
    ELSE LET id == CHOOSE c \in todo : \A o \in todo : c <= o
             e == find(ch, id)
             d == DrainToSuccessor(e.interestedParties, tracker, << >>)
         IN  IF e.visitId # visitId
             THEN relinquishFirstOwned(ch, b, change, events, visitId, rollback,
                                       tracker, todo \ {id})
             ELSE IF d.successor # NullId
             THEN [chunks |-> Store(ch, e, [e EXCEPT !.interestedParties = d.fifo,
                                                     !.visitId = d.successor]),
                   bits |-> b, change |-> TRUE,
                   events |-> events \cup {[chunk |-> id,
                                            kind |-> IF rollback THEN "rollback"
                                                     ELSE "commit",
                                            owner |-> d.successor,
                                            skipped |-> d.skipped]}]
             ELSE [chunks |-> erase(ch, id).set, bits |-> BlockFree(b, e.blocks),
                   change |-> change, events |-> events]

\* fault: relinquishOwnership without the test of the owner
RECURSIVE relinquishEveryChunk(_, _, _, _, _, _, _, _)
relinquishEveryChunk(ch, b, change, events, visitId, rollback, tracker, todo) ==
    IF todo = {}
    THEN [chunks |-> ch, bits |-> b, change |-> change, events |-> events]
    ELSE LET id == CHOOSE c \in todo : \A o \in todo : c <= o
             e == find(ch, id)
             rest == todo \ {id}
         IN  IF e.visitId = e.visitId
             THEN LET d == DrainToSuccessor(e.interestedParties, tracker, << >>)
                  IN  IF d.successor # NullId
                      THEN relinquishEveryChunk(
                               Store(ch, e, [e EXCEPT !.interestedParties = d.fifo,
                                                      !.visitId = d.successor]),
                               b, TRUE,
                               events \cup {[chunk |-> id,
                                             kind |-> IF rollback THEN "rollback"
                                                      ELSE "commit",
                                             owner |-> d.successor,
                                             skipped |-> d.skipped]},
                               visitId, rollback, tracker, rest)
                      ELSE relinquishEveryChunk(
                               erase(ch, id).set, BlockFree(b, e.blocks),
                               change, events, visitId, rollback, tracker, rest)
             ELSE relinquishEveryChunk(ch, b, change, events,
                                      visitId, rollback, tracker, rest)

\* fault: relinquishOwnership reports a change for an erased descriptor too
RECURSIVE relinquishOwnershipEraseCounts(_, _, _, _, _, _, _, _)
relinquishOwnershipEraseCounts(ch, b, change, events, visitId, rollback, tracker, todo) ==
    IF todo = {}
    THEN [chunks |-> ch, bits |-> b, change |-> change, events |-> events]
    ELSE LET id == CHOOSE c \in todo : \A o \in todo : c <= o
             e == find(ch, id)
             rest == todo \ {id}
         IN  IF e.visitId = visitId
             THEN LET d == DrainToSuccessor(e.interestedParties, tracker, << >>)
                  IN  IF d.successor # NullId
                      THEN relinquishOwnershipEraseCounts(
                               Store(ch, e, [e EXCEPT !.interestedParties = d.fifo,
                                                      !.visitId = d.successor]),
                               b, TRUE,
                               events \cup {[chunk |-> id,
                                             kind |-> IF rollback THEN "rollback"
                                                      ELSE "commit",
                                             owner |-> d.successor,
                                             skipped |-> d.skipped]},
                               visitId, rollback, tracker, rest)
                      ELSE relinquishOwnershipEraseCounts(
                               erase(ch, id).set, BlockFree(b, e.blocks),
                               TRUE, events, visitId, rollback, tracker, rest)
             ELSE relinquishOwnershipEraseCounts(ch, b, change, events,
                                      visitId, rollback, tracker, rest)

\* fault: relinquishOwnership erases a descriptor without a successor and
\* leaves its blocks allocated
RECURSIVE relinquishOwnershipKeepsBlocks(_, _, _, _, _, _, _, _)
relinquishOwnershipKeepsBlocks(ch, b, change, events, visitId, rollback, tracker, todo) ==
    IF todo = {}
    THEN [chunks |-> ch, bits |-> b, change |-> change, events |-> events]
    ELSE LET id == CHOOSE c \in todo : \A o \in todo : c <= o
             e == find(ch, id)
             rest == todo \ {id}
         IN  IF e.visitId = visitId
             THEN LET d == DrainToSuccessor(e.interestedParties, tracker, << >>)
                  IN  IF d.successor # NullId
                      THEN relinquishOwnershipKeepsBlocks(
                               Store(ch, e, [e EXCEPT !.interestedParties = d.fifo,
                                                      !.visitId = d.successor]),
                               b, TRUE,
                               events \cup {[chunk |-> id,
                                             kind |-> IF rollback THEN "rollback"
                                                      ELSE "commit",
                                             owner |-> d.successor,
                                             skipped |-> d.skipped]},
                               visitId, rollback, tracker, rest)
                      ELSE relinquishOwnershipKeepsBlocks(
                               erase(ch, id).set, b,
                               change, events, visitId, rollback, tracker, rest)
             ELSE relinquishOwnershipKeepsBlocks(ch, b, change, events,
                                      visitId, rollback, tracker, rest)

\* SubManager::relinquishOwnership over the descriptors with the ids in
\* todo: [chunks, bits, change, events]; an event records a Chunk::commit
\* or Chunk::rollback call with the _visitId the descriptor has at the call
\* and the ids the loop dequeued before it
RECURSIVE relinquishOwnership(_, _, _, _, _, _, _, _)
relinquishOwnership(ch, b, change, events, visitId, rollback, tracker, todo) ==
    IF todo = {}
    THEN [chunks |-> ch, bits |-> b, change |-> change, events |-> events]
    ELSE LET id == CHOOSE c \in todo : \A o \in todo : c <= o
             e == find(ch, id)
             rest == todo \ {id}
         IN  IF e.visitId = visitId
             THEN LET d == DrainToSuccessor(e.interestedParties, tracker, << >>)
                  IN  IF d.successor # NullId
                      THEN relinquishOwnership(
                               Store(ch, e, [e EXCEPT !.interestedParties = d.fifo,
                                                      !.visitId = d.successor]),
                               b, TRUE,
                               events \cup {[chunk |-> id,
                                             kind |-> IF rollback THEN "rollback"
                                                      ELSE "commit",
                                             owner |-> d.successor,
                                             skipped |-> d.skipped]},
                               visitId, rollback, tracker, rest)
                      ELSE relinquishOwnership(
                               erase(ch, id).set, BlockFree(b, e.blocks),
                               change, events, visitId, rollback, tracker, rest)
             ELSE relinquishOwnership(ch, b, change, events,
                                      visitId, rollback, tracker, rest)

\* fault: checkForOwnership puts every chunk the visit owns in toRead,
\* usable or not
RECURSIVE checkForOwnershipReadAll(_, _, _, _, _, _)
checkForOwnershipReadAll(ch, b, toRead, toWaitFor, visitId, i) ==
    IF i >= Len(toWaitFor)
    THEN [chunks |-> ch, bits |-> b, toRead |-> toRead, toWaitFor |-> toWaitFor]
    ELSE LET c == find(ch, toWaitFor[i + 1])
             size == Len(toWaitFor) - 1
             swapped == IF i < size
                        THEN [toWaitFor EXCEPT ![i + 1] = toWaitFor[size + 1]]
                        ELSE toWaitFor
             popped == SubSeq(swapped, 1, size)
         IN  IF c = Null \/ c.visitId # visitId
             THEN checkForOwnershipReadAll(ch, b, toRead, toWaitFor, visitId, i + 1)
             ELSE checkForOwnershipReadAll(
                      Store(ch, c, [c EXCEPT !.blocks = << >>]),
                      BlockFree(b, c.blocks),
                      Append(toRead, c.id), popped, visitId, i)

\* fault: checkForOwnership takes every chunk the visit owns for usable
RECURSIVE checkForOwnershipNoReread(_, _, _, _, _, _)
checkForOwnershipNoReread(ch, b, toRead, toWaitFor, visitId, i) ==
    IF i >= Len(toWaitFor)
    THEN [chunks |-> ch, bits |-> b, toRead |-> toRead, toWaitFor |-> toWaitFor]
    ELSE LET c == find(ch, toWaitFor[i + 1])
             size == Len(toWaitFor) - 1
             swapped == IF i < size
                        THEN [toWaitFor EXCEPT ![i + 1] = toWaitFor[size + 1]]
                        ELSE toWaitFor
             popped == SubSeq(swapped, 1, size)
         IN  IF c = Null \/ c.visitId # visitId
             THEN checkForOwnershipNoReread(ch, b, toRead, toWaitFor, visitId, i + 1)
             ELSE checkForOwnershipNoReread(ch, b, toRead, popped, visitId, i)

\* SubManager::checkForOwnership, at index i of toWaitFor (from 0):
\* [chunks, bits, toRead, toWaitFor]. Chunk::clear returns the blocks of the
\* descriptor to the allocator. A descriptor erased since the caller got
\* its handle holds the id of an ended visit, never that of the caller.
RECURSIVE checkForOwnership(_, _, _, _, _, _)
checkForOwnership(ch, b, toRead, toWaitFor, visitId, i) ==
    IF i >= Len(toWaitFor)
    THEN [chunks |-> ch, bits |-> b, toRead |-> toRead, toWaitFor |-> toWaitFor]
    ELSE LET c == find(ch, toWaitFor[i + 1])
             size == Len(toWaitFor) - 1
             swapped == IF i < size
                        THEN [toWaitFor EXCEPT ![i + 1] = toWaitFor[size + 1]]
                        ELSE toWaitFor
             popped == SubSeq(swapped, 1, size)
         IN  IF c = Null \/ c.visitId # visitId
             THEN checkForOwnership(ch, b, toRead, toWaitFor, visitId, i + 1)
             ELSE IF ~c.usable
             THEN checkForOwnership(Store(ch, c, [c EXCEPT !.blocks = << >>]),
                                    BlockFree(b, c.blocks),
                                    Append(toRead, c.id), popped, visitId, i)
             ELSE checkForOwnership(ch, b, toRead, popped, visitId, i)

\* ------------------------------------------------------------------------
\* ChunkManagerSingleImpl
\* ------------------------------------------------------------------------
\* fault: startVisit tests the visit before the space
startVisitVisitFirst(visitId, chunkIds) ==
    /\ ~waiting[visitId].blocked
    /\ IF ~isValid(visits, visitId)
       THEN /\ chunks' = chunks
            /\ lastOp' = Call("startVisit", visitId, FALSE, "InvalidParameter",
                              << >>, << >>, {}, FALSE)
       ELSE IF DataSpace(chunks) < Len(chunkIds)
       THEN /\ chunks' = chunks
            /\ lastOp' = Call("startVisit", visitId, FALSE, "LengthError",
                              << >>, << >>, {}, FALSE)
       ELSE LET r == createOrRegisterInterest(chunks, << >>, << >>, visitId, chunkIds, 1)
            IN  /\ chunks' = r.chunks
                /\ lastOp' = Call("startVisit", visitId, FALSE,
                                  IF r.exc = "none" THEN "ok" ELSE r.exc,
                                  r.toRead, r.toWaitFor, {}, FALSE)
    /\ UNCHANGED <<visits, bits, waiting>>

\* ChunkManagerSingleImpl::startVisit
startVisit(visitId, chunkIds) ==
    /\ ~waiting[visitId].blocked
    /\ IF DataSpace(chunks) < Len(chunkIds)
       THEN /\ chunks' = chunks
            /\ lastOp' = Call("startVisit", visitId, FALSE, "LengthError",
                              << >>, << >>, {}, FALSE)
       ELSE IF ~isValid(visits, visitId)
       THEN /\ chunks' = chunks
            /\ lastOp' = Call("startVisit", visitId, FALSE, "InvalidParameter",
                              << >>, << >>, {}, FALSE)
       ELSE LET r == createOrRegisterInterest(chunks, << >>, << >>, visitId, chunkIds, 1)
            IN  /\ chunks' = r.chunks
                /\ lastOp' = Call("startVisit", visitId, FALSE,
                                  IF r.exc = "none" THEN "ok" ELSE r.exc,
                                  r.toRead, r.toWaitFor, {}, FALSE)
    /\ UNCHANGED <<visits, bits, waiting>>

\* fault: notifyAll wakes no thread
notifyNone(w) == w

\* Condition::notifyAll on _ownerCondition: every thread blocked on it is
\* notified
notifyAll(w) ==
    [u \in VisitIds |-> IF w[u].blocked THEN [w[u] EXCEPT !.notified = TRUE]
                        ELSE w[u]]

\* fault: endVisit rolls back only when the caller asks for it
endVisitAsAsked(visitId, rollback) ==
    /\ ~waiting[visitId].blocked
    /\ LET roll == rollback
           er == erase(visits, visitId)
       IN  IF ~er.found
           THEN /\ lastOp' = Call("endVisit", visitId, rollback, "false",
                                  << >>, << >>, {}, FALSE)
                /\ UNCHANGED <<visits, chunks, bits, waiting>>
           ELSE LET r == relinquishOwnership(chunks, bits, FALSE, {}, visitId, roll,
                                             er.set, {e.id : e \in chunks})
                IN  /\ visits' = er.set
                    /\ chunks' = r.chunks
                    /\ bits' = r.bits
                    /\ lastOp' = Call("endVisit", visitId, rollback,
                                      IF roll THEN "false" ELSE "true",
                                      << >>, << >>, r.events, r.change)
                    /\ waiting' = IF r.change THEN notifyAll(waiting) ELSE waiting

\* fault: endVisit relinquishes and reports before it looks at the result
\* of the erase
endVisitUnknownToo(visitId, rollback) ==
    /\ ~waiting[visitId].blocked
    /\ LET roll == rollback \/ ~isValid(visits, visitId)
           er == erase(visits, visitId)
           r == relinquishOwnership(chunks, bits, FALSE, {}, visitId, roll,
                                    er.set, {e.id : e \in chunks})
       IN  /\ visits' = er.set
           /\ chunks' = r.chunks
           /\ bits' = r.bits
           /\ lastOp' = Call("endVisit", visitId, rollback,
                             IF roll THEN "false" ELSE "true",
                             << >>, << >>, r.events, TRUE)
           /\ waiting' = notifyAll(waiting)

\* ChunkManagerSingleImpl::endVisit
endVisit(visitId, rollback) ==
    /\ ~waiting[visitId].blocked
    /\ LET roll == rollback \/ ~isValid(visits, visitId)
           er == erase(visits, visitId)
       IN  IF ~er.found
           THEN /\ lastOp' = Call("endVisit", visitId, rollback, "false",
                                  << >>, << >>, {}, FALSE)
                /\ UNCHANGED <<visits, chunks, bits, waiting>>
           ELSE LET r == relinquishOwnership(chunks, bits, FALSE, {}, visitId, roll,
                                             er.set, {e.id : e \in chunks})
                IN  /\ visits' = er.set
                    /\ chunks' = r.chunks
                    /\ bits' = r.bits
                    /\ lastOp' = Call("endVisit", visitId, rollback,
                                      IF roll THEN "false" ELSE "true",
                                      << >>, << >>, r.events, r.change)
                    /\ waiting' = IF r.change THEN notifyAll(waiting) ELSE waiting

\* fault: the loop of waitForOwnership waits before it looks at the result
\* of checkForOwnership
WaitPassWaitsFirst(visitId, toRead, toWaitFor) ==
    LET r == checkForOwnership(chunks, bits, toRead, toWaitFor, visitId, 0)
    IN  /\ chunks' = r.chunks
        /\ bits' = r.bits
        /\ IF r.toWaitFor = << >> /\ waiting[visitId].blocked
           THEN /\ waiting' = [waiting EXCEPT ![visitId] = NotWaiting]
                /\ lastOp' = Call("waitForOwnership", visitId, FALSE, "ok",
                                  r.toRead, r.toWaitFor, {}, FALSE)
           ELSE /\ waiting' = [waiting EXCEPT ![visitId] =
                                  [blocked |-> TRUE,
                                   notified |-> FALSE,
                                   entry |-> IF waiting[visitId].blocked
                                             THEN waiting[visitId].entry
                                             ELSE toWaitFor,
                                   toWaitFor |-> r.toWaitFor,
                                   toRead |-> r.toRead]]
                /\ lastOp' = Call("waitForOwnership", visitId, FALSE, "blocked",
                                  r.toRead, r.toWaitFor, {}, FALSE)
        /\ UNCHANGED visits

\* one pass of the loop of waitForOwnership under the mutex: return when
\* every chunk is owned, block on _ownerCondition otherwise
WaitPass(visitId, toRead, toWaitFor) ==
    LET r == checkForOwnership(chunks, bits, toRead, toWaitFor, visitId, 0)
    IN  /\ chunks' = r.chunks
        /\ bits' = r.bits
        /\ IF r.toWaitFor = << >>
           THEN /\ waiting' = [waiting EXCEPT ![visitId] = NotWaiting]
                /\ lastOp' = Call("waitForOwnership", visitId, FALSE, "ok",
                                  r.toRead, r.toWaitFor, {}, FALSE)
           ELSE /\ waiting' = [waiting EXCEPT ![visitId] =
                                  [blocked |-> TRUE,
                                   notified |-> FALSE,
                                   entry |-> IF waiting[visitId].blocked
                                             THEN waiting[visitId].entry
                                             ELSE toWaitFor,
                                   toWaitFor |-> r.toWaitFor,
                                   toRead |-> r.toRead]]
                /\ lastOp' = Call("waitForOwnership", visitId, FALSE, "blocked",
                                  r.toRead, r.toWaitFor, {}, FALSE)
        /\ UNCHANGED visits

\* ChunkManagerSingleImpl::waitForOwnership, entry; toWaitFor holds handles
\* of distinct descriptors the manager holds
waitForOwnership(visitId, toWaitFor) ==
    /\ ~waiting[visitId].blocked
    /\ \A j \in 1..Len(toWaitFor) : find(chunks, toWaitFor[j]) # Null
    /\ \A j, k \in 1..Len(toWaitFor) : j # k => toWaitFor[j] # toWaitFor[k]
    /\ WaitPass(visitId, << >>, toWaitFor)

\* ChunkManagerSingleImpl::waitForOwnership, _ownerCondition.wait returned
\* true (notification or spurious wake-up)
waitWake(visitId) ==
    /\ waiting[visitId].blocked
    /\ WaitPass(visitId, waiting[visitId].toRead, waiting[visitId].toWaitFor)

\* ChunkManagerSingleImpl::waitForOwnership, _ownerCondition.wait returned
\* false: the deadline expired
waitTimeout(visitId) ==
    /\ waiting[visitId].blocked
    /\ waiting' = [waiting EXCEPT ![visitId] = NotWaiting]
    /\ lastOp' = Call("waitForOwnership", visitId, FALSE, "Timeout",
                      waiting[visitId].toRead, waiting[visitId].toWaitFor, {}, FALSE)
    /\ UNCHANGED <<visits, chunks, bits>>

\* Chunk::markUsable, by the thread of the visit that read the chunk in
markUsable(chunkId) ==
    /\ LET c == find(chunks, chunkId)
       IN  /\ c # Null
           /\ ~c.usable
           /\ ~waiting[c.visitId].blocked
           /\ chunks' = Store(chunks, c, [c EXCEPT !.usable = TRUE])
           /\ lastOp' = Call("markUsable", c.visitId, FALSE, "ok",
                             << >>, <<chunkId>>, {}, FALSE)
    /\ UNCHANGED <<visits, bits, waiting>>

\* the owner of a chunk obtains n more blocks for it from the allocator
allocateBlocks(chunkId, n) ==
    /\ LET c == find(chunks, chunkId)
           r == BlockAllocate(bits, n)
       IN  /\ c # Null
           /\ ~waiting[c.visitId].blocked
           /\ Len(c.blocks) + n <= MAX_BLOCKS_PER_CHUNK
           /\ bits' = r.bits
           /\ chunks' = Store(chunks, c, [c EXCEPT !.blocks = @ \o r.offsets])
           /\ lastOp' = Call("allocateBlocks", c.visitId, FALSE,
                             IF r.exc = "none" THEN "ok" ELSE r.exc,
                             << >>, <<chunkId>>, {}, FALSE)
    /\ UNCHANGED <<visits, waiting>>

\* ------------------------------------------------------------------------
\* Specifications
\* ------------------------------------------------------------------------
\* the lists over the chunk ids C of at most n elements
ListsOver(C, n) == UNION {[1..k -> C] : k \in 0..n}

\* those without duplicates
DistinctListsOver(C, n) ==
    {l \in ListsOver(C, n) : \A j, k \in 1..Len(l) : j # k => l[j] # l[k]}

\* hand-off of one chunk among the visits that can be in flight together
OneChunk == {100}
HandoffVisits == 1..NumHandoffVisits

Next ==
    \/ \E v \in HandoffVisits : registerVisit(v)
    \/ \E v \in HandoffVisits : failVisit(v)
    \/ \E v \in HandoffVisits, c \in OneChunk : startVisit(v, <<c>>)
    \/ \E v \in HandoffVisits, rb \in BOOLEAN : endVisit(v, rb)

Spec == Init /\ [][Next]_vars

\* more visits than the tracker holds, one of them with a chunk
FirstVisit == {1}

NextVisits ==
    \/ \E v \in VisitIds : registerVisit(v)
    \/ \E v \in VisitIds : failVisit(v)
    \/ \E v \in FirstVisit, ids \in ListsOver(OneChunk, MaxList) : startVisit(v, ids)
    \/ \E v \in VisitIds, rb \in BOOLEAN : endVisit(v, rb)

SpecVisits == Init /\ [][NextVisits]_vars

\* two visits and every chunk
TwoVisits == {1, 2}

\* the chunkIds lists of startVisit: duplicate free, as the caller promises
ChunkLists == DistinctListsOver(ChunkIds, MaxList)

NextChunks ==
    \/ \E v \in TwoVisits : registerVisit(v)
    \/ \E v \in TwoVisits : failVisit(v)
    \/ \E v \in TwoVisits, ids \in ChunkLists : startVisit(v, ids)
    \/ \E v \in TwoVisits, rb \in BOOLEAN : endVisit(v, rb)
    \/ \E c \in ChunkIds : markUsable(c)

SpecChunks == Init /\ [][NextChunks]_vars

\* two visits and every chunk, with waiting for ownership
NextWait ==
    \/ \E v \in TwoVisits : registerVisit(v)
    \/ \E v \in TwoVisits : failVisit(v)
    \/ \E v \in TwoVisits, c \in ChunkIds : startVisit(v, <<c>>)
    \/ \E v \in TwoVisits, rb \in BOOLEAN : endVisit(v, rb)
    \/ \E v \in TwoVisits, c \in ChunkIds : waitForOwnership(v, <<c>>)
    \/ \E v \in TwoVisits : waitWake(v)
    \/ \E v \in TwoVisits : waitTimeout(v)

SpecWait == Init /\ [][NextWait]_vars

\* an owner and a visit that waits for several chunks at once, some of
\* them usable
Waiter == {2}

NextOwn ==
    \/ \E v \in TwoVisits : registerVisit(v)
    \/ \E v \in TwoVisits, c \in ChunkIds : startVisit(v, <<c>>)
    \/ \E v \in FirstVisit, rb \in BOOLEAN : endVisit(v, rb)
    \/ \E v \in Waiter, tw \in ChunkLists : waitForOwnership(v, tw)
    \/ \E v \in Waiter : waitWake(v)
    \/ \E v \in Waiter : waitTimeout(v)
    \/ \E c \in ChunkIds : markUsable(c)

SpecOwn == Init /\ [][NextOwn]_vars

\* a visit that owns and ends, and a visit that waits for its chunk and has
\* a chunk of its own, both with blocks
BlockCounts == 1..MAX_BLOCKS_PER_CHUNK

NextBlocks ==
    \/ \E v \in TwoVisits : registerVisit(v)
    \/ \E v \in FirstVisit : failVisit(v)
    \/ \E v \in FirstVisit, c \in OneChunk : startVisit(v, <<c>>)
    \/ \E v \in Waiter, c \in ChunkIds : startVisit(v, <<c>>)
    \/ \E v \in FirstVisit, rb \in BOOLEAN : endVisit(v, rb)
    \/ \E v \in Waiter, c \in OneChunk : waitForOwnership(v, <<c>>)
    \/ \E v \in Waiter : waitWake(v)
    \/ \E v \in Waiter : waitTimeout(v)
    \/ \E c \in ChunkIds, n \in BlockCounts : allocateBlocks(c, n)
    \/ \E c \in ChunkIds : markUsable(c)

SpecBlocks == Init /\ [][NextBlocks]_vars

\* two visits and one chunk, with the progress of a blocked call
NextLive ==
    \/ \E v \in TwoVisits : registerVisit(v)
    \/ \E v \in TwoVisits : failVisit(v)
    \/ \E v \in TwoVisits, c \in OneChunk : startVisit(v, <<c>>)
    \/ \E v \in TwoVisits, rb \in BOOLEAN : endVisit(v, rb)
    \/ \E v \in TwoVisits, c \in OneChunk : waitForOwnership(v, <<c>>)
    \/ \E v \in TwoVisits : waitWake(v)
    \/ \E v \in TwoVisits : waitTimeout(v)
    \/ \E c \in OneChunk : markUsable(c)

\* pthread_cond_timedwait returns to a thread that was notified
NotifiedWake(v) == waiting[v].notified /\ waitWake(v)

\* a notified thread is woken unless its deadline expires first
SpecNotify ==
    Init /\ [][NextLive]_vars /\ \A v \in TwoVisits : WF_vars(NotifiedWake(v))

\* every deadline expires: pthread_cond_timedwait returns ETIMEDOUT to a
\* thread that stays blocked
SpecDeadline ==
    Init /\ [][NextLive]_vars /\ \A v \in TwoVisits : WF_vars(waitTimeout(v))

\* the set of chunk descriptors by itself, as createOrRegisterInterest and
\* relinquishOwnership use it; chunks holds its layout. EntryType() leaves
\* the id of a descriptor that is not in use, -1, in an entry
CtorIds == {NullId}

InitSet ==
    /\ visits = {}
    /\ \E g \in CtorIds : chunks = HashedSet_HashedSet(SetEntries, g)
    /\ bits = [i \in BlockIndexes |-> FALSE]
    /\ waiting = [v \in VisitIds |-> NotWaiting]
    /\ lastOp = Call("init", NullId, FALSE, "ok", << >>, << >>, {}, FALSE)

\* The set of ids of capacity NumEntries next to the HashedSet: visits is
\* the set of the ids put in and not erased since; an id goes in when it is
\* not in and fewer than NumEntries are
AddId(S, id) ==
    IF id \notin S /\ Cardinality(S) < SetEntries THEN S \cup {id} ELSE S

\* _chunks.findOrInsert(id), the call createOrRegisterInterest makes; the
\* entry returned is kept by its index, -1 for null
SetFindOrInsert(id) ==
    LET r == HashedSet_findOrInsert(chunks, id)
    IN  /\ chunks' = r.hs
        /\ lastOp' = Call("findOrInsert", id, FALSE,
                          IF ~r.inserted THEN "found"
                          ELSE IF r.ptr < 0 THEN "full" ELSE "inserted",
                          <<r.ptr>>, << >>, {}, FALSE)
        /\ visits' = AddId(visits, id)
        /\ UNCHANGED <<bits, waiting>>

\* _visits.insert(id), the call registerVisit makes
SetInsert(id) ==
    LET r == HashedSet_insert(chunks, id)
    IN  /\ chunks' = r.hs
        /\ lastOp' = Call("insert", id, FALSE,
                          IF r.ptr < 0 THEN "null" ELSE "inserted",
                          << >>, << >>, {}, FALSE)
        /\ visits' = AddId(visits, id)
        /\ UNCHANGED <<bits, waiting>>

\* _chunks.erase(id), the call relinquishOwnership makes
SetErase(id) ==
    LET r == HashedSet_erase(chunks, id)
    IN  /\ chunks' = r.hs
        /\ lastOp' = Call("erase", id, FALSE,
                          IF r.found THEN "true" ELSE "false",
                          << >>, << >>, {}, FALSE)
        /\ visits' = visits \ {id}
        /\ UNCHANGED <<bits, waiting>>

NextSet ==
    \/ \E id \in SetIds : SetFindOrInsert(id)
    \/ \E id \in SetIds : SetInsert(id)
    \/ \E id \in SetIds : SetErase(id)

SpecSet == InitSet /\ [][NextSet]_vars

\* the bitset by itself; bits holds its words
Words == [1..BITS_PER_WORD -> {0, 1}]

\* the zero bits among the NumBits valid bits of the words
ZeroBits(words) ==
    {i \in 0..(NumBits - 1) :
        words[(i \div BITS_PER_WORD) + 1][(i % BITS_PER_WORD) + 1] = 0}

\* every content, padding bits included, with at most MaxSet zero bits
\* among the valid ones
InitBitset ==
    /\ visits = {}
    /\ chunks = {}
    /\ bits \in {w \in [1..NUM_WORDS -> Words] : Cardinality(ZeroBits(w)) <= MaxSet}
    /\ waiting = [v \in VisitIds |-> NotWaiting]
    /\ lastOp = Call("init", NullId, FALSE, "ok", << >>, << >>, {}, FALSE)

\* Bitset::set(indexes, numBits)
Bitset_set(numBits) ==
    LET r == detail_set(bits, numBits, NumBits)
    IN  /\ bits' = r.words
        /\ lastOp' = Call("set", numBits, FALSE, IF r.ok THEN "true" ELSE "false",
                          r.indexes, << >>, {}, FALSE)
        /\ UNCHANGED <<visits, chunks, waiting>>

NextBitset == \E k \in 1..MaxSet : Bitset_set(k)

SpecBitset == InitBitset /\ [][NextBitset]_vars

\* the index lists handed to reset: up to MaxResetLen of the first bit of
\* each word and the last valid bit, in any order, repeats included
MaxResetLen == 2
ResetBits == {0, BITS_PER_WORD, NumBits - 1}
ResetLists == UNION {[1..n -> ResetBits] : n \in 0..MaxResetLen}

\* Bitset::reset(indexes, numBits); the pool of the model keeps at most
\* MaxSet valid bits clear
Bitset_reset(indexes) ==
    LET r == detail_reset(bits, indexes, NumBits)
    IN  /\ r.ok
        /\ Cardinality(ZeroBits(r.words)) <= MaxSet
        /\ bits' = r.words
        /\ lastOp' = Call("reset", Len(indexes), FALSE, "ok", indexes, << >>, {}, FALSE)
        /\ UNCHANGED <<visits, chunks, waiting>>

\* Bitset::reset of the indexes the preceding set returned
Bitset_resetTaken ==
    /\ lastOp.op = "set"
    /\ lastOp.result = "true"
    /\ LET r == detail_reset(bits, lastOp.toRead, NumBits)
       IN  /\ r.ok
           /\ bits' = r.words
           /\ lastOp' = Call("resetTaken", Len(lastOp.toRead), FALSE, "ok",
                             lastOp.toRead, << >>, {}, FALSE)
    /\ UNCHANGED <<visits, chunks, waiting>>

\* every content with at most MaxSet zero bits among the valid ones and the
\* padding bits all zero or all one
InitReset ==
    /\ InitBitset
    /\ \E b \in {0, 1} : \A i \in NumBits..(NUM_WORDS * BITS_PER_WORD - 1) :
           bits[(i \div BITS_PER_WORD) + 1][(i % BITS_PER_WORD) + 1] = b

NextReset ==
    \/ \E k \in 1..MaxSet : Bitset_set(k)
    \/ \E indexes \in ResetLists : Bitset_reset(indexes)
    \/ Bitset_resetTaken

SpecReset == InitReset /\ [][NextReset]_vars

\* A Fifo by itself: chunks is the Fifo, bits the values enqueued and not
\* yet dequeued since the last clear, oldest first. Fifo::Fifo() clears and
\* leaves _buffer as it finds it.
InitFifo ==
    /\ visits = {}
    /\ \E b \in [1..FifoEntries -> FifoValues] :
           chunks = Fifo_clear([buffer |-> b, size |-> 0, back |-> 0, front |-> 0])
    /\ bits = << >>
    /\ waiting = [v \in VisitIds |-> NotWaiting]
    /\ lastOp = Call("init", NullId, FALSE, "ok", << >>, << >>, {}, FALSE)

FifoEnqueue(elt) ==
    LET r == Fifo_enqueue(chunks, elt)
    IN  /\ chunks' = r.fifo
        /\ bits' = IF r.exc = "none" THEN Append(bits, elt) ELSE bits
        /\ lastOp' = Call("enqueue", elt, FALSE, r.exc, << >>, << >>, {}, FALSE)
        /\ UNCHANGED <<visits, waiting>>

FifoDequeue ==
    LET r == Fifo_dequeue(chunks)
    IN  /\ chunks' = r.fifo
        /\ bits' = IF r.exc = "none" THEN Tail(bits) ELSE bits
        /\ lastOp' = Call("dequeue", r.elt, FALSE, r.exc, << >>, << >>, {}, FALSE)
        /\ UNCHANGED <<visits, waiting>>

FifoClear ==
    /\ chunks' = Fifo_clear(chunks)
    /\ bits' = << >>
    /\ lastOp' = Call("clear", NullId, FALSE, "none", << >>, << >>, {}, FALSE)
    /\ UNCHANGED <<visits, waiting>>

NextFifo ==
    \/ \E elt \in FifoValues : FifoEnqueue(elt)
    \/ FifoDequeue
    \/ FifoClear

SpecFifo == InitFifo /\ [][NextFifo]_vars

\* The block allocator over its bitset as it is laid out: bits is the
\* bitset _allocator of a pool of NumBits blocks. ndebug tells whether the
\* build compiles the asserts out; a failed assert aborts the process.
\* fault: allocate without the test of n against MAX_BLOCKS_PER_CHUNK
BlockAllocator_allocateAnyCount(words, n, ndebug) ==
    IF ~ndebug /\ ~(n > 0)
    THEN [exc |-> "assert", words |-> words, offsets |-> << >>]
    ELSE LET r == detail_set(words, n, NumBits)
         IN  IF ~r.ok THEN [exc |-> "bad_alloc", words |-> words, offsets |-> << >>]
             ELSE [exc |-> "none", words |-> r.words,
                   offsets |-> [j \in 1..n |-> BlockBase + r.indexes[j] * BLOCK_SIZE]]

\* BlockAllocator::allocate(blockOffsets, n) with _allocator.set(i, n) and
\* the assert of detail::set on numBitsToSet: [exc, words, offsets]
BlockAllocator_allocate(words, n, ndebug) ==
    IF n < 0 \/ n > MAX_BLOCKS_PER_CHUNK
    THEN [exc |-> "OutOfRange", words |-> words, offsets |-> << >>]
    ELSE IF ~ndebug /\ ~(n > 0)
    THEN [exc |-> "assert", words |-> words, offsets |-> << >>]
    ELSE LET r == detail_set(words, n, NumBits)
         IN  IF ~r.ok THEN [exc |-> "bad_alloc", words |-> words, offsets |-> << >>]
             ELSE [exc |-> "none", words |-> r.words,
                   offsets |-> [j \in 1..n |-> BlockBase + r.indexes[j] * BLOCK_SIZE]]

\* BlockAllocator::free(blockOffsets, n) with _allocator.reset(i, n):
\* [ok, words], ok false when an assert on an offset fails
BlockAllocator_free(words, offsets) ==
    LET off == [j \in 1..Len(offsets) |-> offsets[j] - BlockBase]
    IN  IF \E j \in 1..Len(offsets) :
               ~(off[j] >= 0 /\ off[j] < NumBits * BLOCK_SIZE /\ off[j] % BLOCK_SIZE = 0)
        THEN [ok |-> FALSE, words |-> words]
        ELSE detail_reset(words, [j \in 1..Len(offsets) |-> off[j] \div BLOCK_SIZE], NumBits)

\* the process was aborted by an assert
Aborted == lastOp.result = "assert"

\* the offsets of the blocks of an index list
OffsetsOf(indexes) == [j \in 1..Len(indexes) |-> BlockBase + indexes[j] * BLOCK_SIZE]

\* allocate(blockOffsets, n) in a build with (ndebug) or without NDEBUG
Alloc(n, ndebug) ==
    /\ ~Aborted
    /\ LET r == BlockAllocator_allocate(bits, n, ndebug)
       IN  /\ bits' = r.words
           /\ lastOp' = Call("allocate", n, ndebug, r.exc, r.offsets, << >>, {}, FALSE)
    /\ UNCHANGED <<visits, chunks, waiting>>

\* free(blockOffsets, n) of the blocks of an index list of at most
\* MAX_BLOCKS_PER_CHUNK; the pool of the model keeps at most MaxSet blocks
\* free
Free(indexes) ==
    /\ ~Aborted
    /\ Len(indexes) <= MAX_BLOCKS_PER_CHUNK
    /\ LET r == BlockAllocator_free(bits, OffsetsOf(indexes))
       IN  /\ r.ok
           /\ Cardinality(ZeroBits(r.words)) <= MaxSet
           /\ bits' = r.words
           /\ lastOp' = Call("free", Len(indexes), FALSE, "ok", OffsetsOf(indexes),
                             << >>, {}, FALSE)
    /\ UNCHANGED <<visits, chunks, waiting>>

\* free of the blocks the preceding allocate returned
FreeTaken ==
    /\ lastOp.op = "allocate"
    /\ lastOp.result = "none"
    /\ LET r == BlockAllocator_free(bits, lastOp.toRead)
       IN  /\ r.ok
           /\ bits' = r.words
           /\ lastOp' = Call("freeTaken", Len(lastOp.toRead), FALSE, "ok",
                             lastOp.toRead, << >>, {}, FALSE)
    /\ UNCHANGED <<visits, chunks, waiting>>

NextAlloc ==
    \/ \E n \in 0..(MAX_BLOCKS_PER_CHUNK + 1), ndebug \in BOOLEAN : Alloc(n, ndebug)
    \/ \E indexes \in ResetLists : Free(indexes)
    \/ FreeTaken

SpecAlloc == InitReset /\ [][NextAlloc]_vars

\* The hash by itself. bits is the input: a 64-bit key as the tuple of its
\* four 16-bit limbs, lowest first, or a signed id as a tuple of one. The
\* keys have every limb at an end or in the middle of its range, the ids are
\* the small signed ones, the set sizes the powers of two up to
\* 2 ^ MaxLogEntries.
NumHashIds == 3
MaxLogEntries == 2
HashLimbs == {0, 1, 32768, 65535}
HashKeys == [1..4 -> HashLimbs]
HashIds == (-NumHashIds)..NumHashIds

\* the bits of a key given by its limbs, bit 0 first
RECURSIVE LimbsToBits(_, _)
LimbsToBits(k, i) ==
    IF i >= WordBits THEN << >>
    ELSE <<(k[(i \div 16) + 1] \div (2 ^ (i % 16))) % 2>> \o LimbsToBits(k, i + 1)

InitHash ==
    /\ visits = {}
    /\ chunks = {}
    /\ bits \in HashKeys \cup {<<id>> : id \in HashIds}
    /\ waiting = [v \in VisitIds |-> NotWaiting]
    /\ lastOp = Call("init", NullId, FALSE, "ok", << >>, << >>, {}, FALSE)

\* hash(uint64_t) of the key
HashKey ==
    /\ lastOp.op = "init"
    /\ Len(bits) = 4
    /\ lastOp' = Call("hash", NullId, FALSE, "ok", hash64(LimbsToBits(bits, 0)),
                      << >>, {}, FALSE)
    /\ UNCHANGED <<visits, chunks, bits, waiting>>

\* hash(id) & (2*NumEntries - 1) of a signed id, with hash(int64_t)
BucketOfId(id, NumEntries) ==
    /\ lastOp.op = "init"
    /\ bits = <<id>>
    /\ lastOp' = Call("bucket", id, FALSE, "ok", <<Bucket(id, NumEntries)>>,
                      <<NumEntries>>, {}, FALSE)
    /\ UNCHANGED <<visits, chunks, bits, waiting>>

NextHash ==
    \/ HashKey
    \/ \E id \in HashIds, l \in 1..MaxLogEntries : BucketOfId(id, 2 ^ l)

SpecHash == InitHash /\ [][NextHash]_vars

\* a bitset of one full word, Bitset<uint8_t, 8>, with any content
ByteMaxSet == 4

InitByte ==
    /\ visits = {}
    /\ chunks = {}
    /\ bits \in [1..1 -> Words]
    /\ waiting = [v \in VisitIds |-> NotWaiting]
    /\ lastOp = Call("init", NullId, FALSE, "ok", << >>, << >>, {}, FALSE)

\* Bitset::set(indexes, numBits) of Bitset<uint8_t, 8>
Byte_set(numBits) ==
    LET r == detail_set(bits, numBits, BITS_PER_WORD)
    IN  /\ bits' = r.words
        /\ lastOp' = Call("set", numBits, FALSE, IF r.ok THEN "true" ELSE "false",
                          r.indexes, << >>, {}, FALSE)
        /\ UNCHANGED <<visits, chunks, waiting>>

NextByte == \E k \in 1..ByteMaxSet : Byte_set(k)

SpecByte == InitByte /\ [][NextByte]_vars

\* ------------------------------------------------------------------------
\* Properties
\* ------------------------------------------------------------------------
\* visit v is in the tracker; v is in the tracker and not marked failed
Registered(v) == \E x \in visits : x.id = v
Valid(v) == \E x \in visits : x.id = v /\ ~x.failed

\* the ids a queue or a list holds
Elems(q) == {q[k] : k \in 1..Len(q)}

\* C1: after any sequence of registerVisit, startVisit, waitForOwnership,
\* failVisit and endVisit calls, every allocated chunk descriptor is owned
\* by a visit that is registered in the visit tracker (failed or not).
C1_OwnerIsRegistered == \A e \in chunks : Registered(e.visitId)

\* C1, its case: an endVisit handed a chunk over after it had dequeued the
\* id of a visit that is no longer registered.
C1_HandedOverPastEndedVisit ==
    /\ lastOp.op = "endVisit"
    /\ \E ev \in lastOp.events :
           /\ \E k \in 1..Len(ev.skipped) : ~Registered(ev.skipped[k])
           /\ \E e \in chunks : e.id = ev.chunk /\ e.visitId = ev.owner

\* C2 as stated: once endVisit(v) has returned, no descriptor is owned by v
\* and no queue of interested parties holds v.
C2_EndedVisitIsGone ==
    lastOp.op = "endVisit" =>
        \A e \in chunks : /\ e.visitId # lastOp.visit
                          /\ lastOp.visit \notin Elems(e.interestedParties)

\* C2 amended: once endVisit(v) has returned, no descriptor is owned by v
\* (a queue may still hold v: an id leaves a queue only when a hand-off
\* dequeues it).
C2_EndedVisitOwnsNothing ==
    lastOp.op = "endVisit" => \A e \in chunks : e.visitId # lastOp.visit

\* C2, its case: endVisit(v) handed over a chunk v owned while v is still
\* in the queue of a chunk it waited for.
C2_EndedOwnerStillQueued ==
    /\ lastOp.op = "endVisit"
    /\ \E ev \in lastOp.events, e \in chunks :
           /\ e.id # ev.chunk
           /\ lastOp.visit \in Elems(e.interestedParties)

\* C3 as stated: in every reachable state no visit id appears twice in the
\* queue of interested parties of a descriptor.
C3_NoDuplicateInterest ==
    \A e \in chunks :
        \A j, k \in 1..Len(e.interestedParties) :
            j # k => e.interestedParties[j] # e.interestedParties[k]

\* C4: FIFO hand-off. A valid visit that names a chunk another visit owns is
\* put at the tail of the queue, and when the owner ends while every queued
\* visit is valid the head of the queue becomes the owner and the others
\* keep their order: with B, C queued in that order behind A, endVisit(A)
\* makes B the owner and leaves C queued, and endVisit(B) then makes C the
\* owner.
C4_FifoHandOff ==
    [][/\ \A v \in HandoffVisits, c \in OneChunk, e \in chunks :
              (/\ lastOp'.op = "startVisit"
               /\ lastOp'.visit = v
               /\ lastOp'.result = "ok"
               /\ e.id = c
               /\ startVisit(v, <<c>>))
              => [e EXCEPT !.interestedParties = e.interestedParties \o <<v>>]
                     \in chunks'
       /\ \A a \in HandoffVisits, rb \in BOOLEAN, e \in chunks :
              (/\ lastOp'.op = "endVisit"
               /\ lastOp'.visit = a
               /\ lastOp'.rollback = rb
               /\ Registered(a)
               /\ e.visitId = a
               /\ e.interestedParties # << >>
               /\ \A x \in Elems(e.interestedParties) : x # a /\ Valid(x)
               /\ endVisit(a, rb))
              => \E n \in chunks' :
                     /\ n.id = e.id
                     /\ n.visitId = e.interestedParties[1]
                     /\ n.interestedParties =
                            SubSeq(e.interestedParties, 2, Len(e.interestedParties))
      ]_vars

\* C4, its case: endVisit(A) made B the owner with nothing skipped and left
\* exactly one other valid visit C queued.
C4_HandedToFirstOfTwo ==
    /\ lastOp.op = "endVisit"
    /\ \E ev \in lastOp.events, e \in chunks :
           /\ e.id = ev.chunk
           /\ ev.skipped = << >>
           /\ e.visitId = ev.owner
           /\ Len(e.interestedParties) = 1
           /\ Valid(e.interestedParties[1])
           /\ e.interestedParties[1] \notin {e.visitId, lastOp.visit}

\* C5: failed-visit skip. When the owner v of a chunk ends, the new owner
\* is the first id in queue order that is a valid visit, the ids before it
\* are discarded and the queue keeps exactly the ids after it; when no queued
\* id is valid the descriptor is freed. An id that is not valid never becomes
\* owner.
C5_SkipInvalid ==
    [][\A v \in HandoffVisits, rb \in BOOLEAN, e \in chunks :
           (/\ lastOp'.op = "endVisit"
            /\ lastOp'.visit = v
            /\ lastOp'.rollback = rb
            /\ Registered(v)
            /\ e.visitId = v
            /\ endVisit(v, rb))
           => LET q == e.interestedParties
                  Ok(x) == x # v /\ Valid(x)
                  first == {k \in 1..Len(q) :
                                Ok(q[k]) /\ \A j \in 1..(k - 1) : ~Ok(q[j])}
              IN  IF first = {}
                  THEN \A n \in chunks' : n.id # e.id
                  ELSE \E k \in first, n \in chunks' :
                           /\ n.id = e.id
                           /\ n.visitId = q[k]
                           /\ n.interestedParties = SubSeq(q, k + 1, Len(q))
      ]_vars

\* C5, its case: an endVisit handed a chunk over after it had dequeued the
\* id of a visit that is registered and marked failed.
C5_SkippedFailedVisit ==
    /\ lastOp.op = "endVisit"
    /\ \E ev \in lastOp.events :
           \E k \in 1..Len(ev.skipped), x \in visits :
               x.id = ev.skipped[k] /\ x.failed

\* C6: endVisit(v, rollback) returns true if and only if v was registered,
\* not marked failed, and rollback was false; for a failed v,
\* endVisit(v, FALSE) rolls back every chunk it hands over and leaves the
\* descriptors as endVisit(v, TRUE) would.
C6_EndVisitResult ==
    [][\A v \in HandoffVisits, rb \in BOOLEAN :
           (/\ lastOp'.op = "endVisit"
            /\ lastOp'.visit = v
            /\ lastOp'.rollback = rb
            /\ endVisit(v, rb))
           => /\ lastOp'.result \in {"true", "false"}
              /\ (lastOp'.result = "true") <=> (Valid(v) /\ ~rb)
              /\ (Registered(v) /\ ~Valid(v))
                 => LET r == relinquishOwnership(chunks, bits, FALSE, {}, v, TRUE,
                                                 {x \in visits : x.id # v},
                                                 {e.id : e \in chunks})
                    IN  /\ \A ev \in lastOp'.events : ev.kind = "rollback"
                        /\ lastOp'.events = r.events
                        /\ chunks' = r.chunks
      ]_vars

\* C6, its case: endVisit(v, FALSE) of a failed v returned false and rolled
\* back a chunk it handed over.
C6_FailedVisitRolledBack ==
    /\ lastOp.op = "endVisit"
    /\ ~lastOp.rollback
    /\ lastOp.result = "false"
    /\ \E ev \in lastOp.events : ev.kind = "rollback"

\* C7: registerVisit(v) fails with InvalidParameter (the visit is already
\* in flight) when v is registered, failed or not, and with LengthError (too
\* many visits in flight) when v is not registered and the tracker is full;
\* both leave the tracker and the descriptors unchanged. Otherwise v becomes
\* registered and not failed.
C7_RegisterVisit ==
    [][\A v \in VisitIds :
           (/\ lastOp'.op = "registerVisit"
            /\ lastOp'.visit = v
            /\ registerVisit(v))
           => IF Registered(v)
              THEN /\ lastOp'.result = "InvalidParameter"
                   /\ UNCHANGED <<visits, chunks, bits>>
              ELSE IF Cardinality(visits) = MAX_VISITS_IN_FLIGHT
              THEN /\ lastOp'.result = "LengthError"
                   /\ UNCHANGED <<visits, chunks, bits>>
              ELSE /\ lastOp'.result = "ok"
                   /\ visits' = visits \cup {[id |-> v, failed |-> FALSE]}
                   /\ UNCHANGED <<chunks, bits>>
      ]_vars

\* C7, its case: registerVisit was refused for a visit that is registered
\* and marked failed.
C7_RefusedFailedVisit ==
    /\ lastOp.op = "registerVisit"
    /\ lastOp.result = "InvalidParameter"
    /\ \E x \in visits : x.id = lastOp.visit /\ x.failed

\* C8: at most MAX_VISITS_IN_FLIGHT visits are registered; with that many
\* registered, registerVisit of a new id fails with LengthError and
\* registers nothing; endVisit of a registered visit frees exactly one slot.
C8_VisitsInFlightBounded ==
    [][/\ Cardinality(visits) <= MAX_VISITS_IN_FLIGHT
       /\ Cardinality(visits') <= MAX_VISITS_IN_FLIGHT
       /\ \A v \in VisitIds :
              (/\ lastOp'.op = "registerVisit"
               /\ lastOp'.visit = v
               /\ ~Registered(v)
               /\ Cardinality(visits) = MAX_VISITS_IN_FLIGHT
               /\ registerVisit(v))
              => lastOp'.result = "LengthError" /\ visits' = visits
       /\ \A v \in VisitIds, rb \in BOOLEAN :
              (/\ lastOp'.op = "endVisit"
               /\ lastOp'.visit = v
               /\ lastOp'.rollback = rb
               /\ Registered(v)
               /\ endVisit(v, rb))
              => /\ Cardinality(visits') = Cardinality(visits) - 1
                 /\ visits' \subseteq visits
      ]_vars

\* C8, its case: registerVisit of a new id was refused with the tracker full.
C8_RefusedWhenFull ==
    /\ lastOp.op = "registerVisit"
    /\ lastOp.result = "LengthError"
    /\ ~Registered(lastOp.visit)
    /\ Cardinality(visits) = MAX_VISITS_IN_FLIGHT

\* C9: a successful startVisit(v, chunkIds) with duplicate-free chunkIds
\* partitions chunkIds. An id without a descriptor gets a new one owned by
\* v, not usable, without blocks and without interested parties, and is
\* returned in toRead; an id with a descriptor gets v at the tail of its
\* queue, keeps everything else, and is returned in toWaitFor. No other
\* descriptor changes.
C9_StartVisitPartitions ==
    [][\A v \in TwoVisits, ids \in ChunkLists :
           (/\ lastOp'.op = "startVisit"
            /\ lastOp'.visit = v
            /\ lastOp'.result = "ok"
            /\ startVisit(v, ids))
           => LET Old(c) == \E e \in chunks : e.id = c
                  New(c) == ~Old(c)
              IN  /\ lastOp'.toRead = SelectSeq(ids, New)
                  /\ lastOp'.toWaitFor = SelectSeq(ids, Old)
                  /\ \A c \in Elems(ids) :
                         IF New(c)
                         THEN [id |-> c, visitId |-> v, usable |-> FALSE,
                               interestedParties |-> << >>, blocks |-> << >>]
                                  \in chunks'
                         ELSE \E e \in chunks :
                                  /\ e.id = c
                                  /\ [e EXCEPT !.interestedParties =
                                                   e.interestedParties \o <<v>>]
                                         \in chunks'
                  /\ \A e \in chunks : e.id \notin Elems(ids) => e \in chunks'
                  /\ \A n \in chunks' : Old(n.id) \/ n.id \in Elems(ids)
                  /\ \A m, n \in chunks' : m.id = n.id => m = n
                  /\ UNCHANGED <<visits, bits>>
      ]_vars

\* C9, its case: a startVisit created one chunk and queued for another one,
\* which is usable.
C9_ReadOneWaitForOne ==
    /\ lastOp.op = "startVisit"
    /\ lastOp.result = "ok"
    /\ Len(lastOp.toRead) = 1
    /\ Len(lastOp.toWaitFor) = 1
    /\ \E e \in chunks : e.id = lastOp.toWaitFor[1] /\ e.usable

\* C10 as stated: startVisit by a visit that is unknown or marked failed
\* fails with InvalidParameter (the visit is not in flight) whatever the list.
C10_InvalidVisitIsNotInFlight ==
    (lastOp.op = "startVisit" /\ ~Valid(lastOp.visit))
    => lastOp.result = "InvalidParameter"

\* C10 amended: startVisit by a visit that is unknown or marked failed fails
\* with InvalidParameter when the list is no longer than the number of free
\* descriptors and with LengthError when it is longer; both leave all
\* manager state unchanged.
C10_InvalidVisitRefused ==
    [][\A v \in TwoVisits, ids \in ChunkLists :
           (/\ lastOp'.op = "startVisit"
            /\ lastOp'.visit = v
            /\ ~Valid(v)
            /\ startVisit(v, ids))
           => /\ lastOp'.result =
                     IF Len(ids) > MAX_CHUNKS - Cardinality(chunks)
                     THEN "LengthError" ELSE "InvalidParameter"
              /\ UNCHANGED <<visits, chunks, bits, waiting>>
      ]_vars

\* C10, its case: startVisit by a visit that is not valid was refused with
\* LengthError.
C10_RefusedForSpace ==
    /\ lastOp.op = "startVisit"
    /\ lastOp.result = "LengthError"
    /\ ~Valid(lastOp.visit)

\* C11 as stated: whenever startVisit fails, no descriptor has been created,
\* no queue of interested parties has been modified and the block pool is
\* unchanged.
C11_FailedStartVisitChangesNothing ==
    [][\A v \in TwoVisits, ids \in ChunkLists :
           (/\ lastOp'.op = "startVisit"
            /\ lastOp'.visit = v
            /\ lastOp'.result # "ok"
            /\ startVisit(v, ids))
           => UNCHANGED <<visits, chunks, bits>>
      ]_vars

\* the handles in the list tw whose descriptor visit v owns, and those of
\* them that are not usable
OwnedIn(v, tw) == {c \in Elems(tw) : \E e \in chunks : e.id = c /\ e.visitId = v}
UnusableIn(v, tw) ==
    {c \in Elems(tw) : \E e \in chunks : e.id = c /\ e.visitId = v /\ ~e.usable}

\* one pass of waitForOwnership for v over toRead tr and toWaitFor tw: the
\* handles v owns leave toWaitFor, those of them that are not usable are
\* appended to toRead once each, and the call returns if and only if
\* toWaitFor became empty
PassTakesOwned(v, tr, tw) ==
    /\ Elems(lastOp'.toWaitFor) = Elems(tw) \ OwnedIn(v, tw)
    /\ Len(lastOp'.toWaitFor) = Len(tw) - Cardinality(OwnedIn(v, tw))
    /\ Elems(lastOp'.toRead) = Elems(tr) \cup UnusableIn(v, tw)
    /\ Len(lastOp'.toRead) = Len(tr) + Cardinality(UnusableIn(v, tw))
    /\ (lastOp'.result = "ok") = (lastOp'.toWaitFor = << >>)

\* the call of v made with the list entry has returned normally: v owns
\* every chunk of entry, and toRead holds, once each, those that are not
\* usable
ReturnedOwning(v, entry) ==
    lastOp'.result = "ok" =>
        /\ lastOp'.toWaitFor = << >>
        /\ Elems(lastOp'.toRead) \subseteq Elems(entry)
        /\ Len(lastOp'.toRead) = Cardinality(Elems(lastOp'.toRead))
        /\ \A c \in Elems(entry) :
               \E e \in chunks' :
                   /\ e.id = c
                   /\ e.visitId = v
                   /\ e.usable = (c \notin Elems(lastOp'.toRead))

\* C12: when waitForOwnership(v, toWaitFor, deadline) returns normally,
\* toWaitFor is empty, every chunk that was in toWaitFor on entry is owned
\* by v, and toRead holds exactly those of them that were not usable when v
\* was seen to own them, each once.
C12_WaitReturnsOwned ==
    [][\A v \in Waiter :
           /\ \A tw \in ChunkLists :
                  (/\ lastOp'.op = "waitForOwnership"
                   /\ lastOp'.visit = v
                   /\ lastOp'.result # "Timeout"
                   /\ ~waiting[v].blocked
                   /\ waitForOwnership(v, tw))
                  => /\ PassTakesOwned(v, << >>, tw)
                     /\ ReturnedOwning(v, tw)
           /\ (/\ lastOp'.op = "waitForOwnership"
               /\ lastOp'.visit = v
               /\ lastOp'.result # "Timeout"
               /\ waiting[v].blocked
               /\ waitWake(v))
              => /\ PassTakesOwned(v, waiting[v].toRead, waiting[v].toWaitFor)
                 /\ ReturnedOwning(v, waiting[v].entry)
      ]_vars

\* C12, its case: waitForOwnership returned normally to a visit that owns
\* two chunks, with the one that is not usable in toRead and the usable one
\* left out.
C12_ReturnedWithOneToRead ==
    /\ lastOp.op = "waitForOwnership"
    /\ lastOp.result = "ok"
    /\ Len(lastOp.toRead) = 1
    /\ \E e, u \in chunks :
           /\ e.visitId = lastOp.visit
           /\ u.visitId = lastOp.visit
           /\ ~e.usable
           /\ u.usable
           /\ lastOp.toRead = <<e.id>>

\* endVisit(a, rollback = false) has just returned after it handed chunk c,
\* usable, to visit w, the first in its queue, while w is blocked in
\* waitForOwnership on c alone
HandedToWaiter(a, w, c) ==
    /\ lastOp.op = "endVisit"
    /\ lastOp.visit = a
    /\ ~lastOp.rollback
    /\ \E ev \in lastOp.events :
           ev.chunk = c /\ ev.owner = w /\ ev.skipped = << >>
    /\ waiting[w].blocked
    /\ waiting[w].toWaitFor = <<c>>
    /\ waiting[w].toRead = << >>
    /\ \E e \in chunks : e.id = c /\ e.visitId = w /\ e.usable

\* the waitForOwnership call of w has just returned normally with toRead
\* and toWaitFor empty, c owned by w and usable
WaiterReturned(w, c) ==
    /\ lastOp.op = "waitForOwnership"
    /\ lastOp.visit = w
    /\ lastOp.result = "ok"
    /\ lastOp.toRead = << >>
    /\ lastOp.toWaitFor = << >>
    /\ \E e \in chunks : e.id = c /\ e.visitId = w /\ e.usable

\* the deadline of the waitForOwnership call of w has passed
DeadlinePassed(w) ==
    /\ lastOp.op = "waitForOwnership"
    /\ lastOp.visit = w
    /\ lastOp.result = "Timeout"

\* C13: the hand-off wakes the waiter. When a valid visit w is blocked in
\* waitForOwnership on a usable chunk that visit a owns, w first in its
\* queue, then after endVisit(a, rollback = false) has returned the call of
\* w eventually returns normally with toRead and toWaitFor empty, the chunk
\* owned by w and usable, unless its deadline passes first.
C13_HandOffWakesWaiter ==
    \A a, w \in TwoVisits, c \in OneChunk :
        HandedToWaiter(a, w, c) ~> (WaiterReturned(w, c) \/ DeadlinePassed(w))

\* C13, its case: an endVisit without rollback has handed a usable chunk
\* to the visit that is blocked on it.
C13_HandedToBlockedWaiter ==
    \E a, w \in TwoVisits, c \in OneChunk : a # w /\ HandedToWaiter(a, w, c)

\* C14: waitForOwnership never blocks forever and is ended only by
\* ownership or by the deadline: a blocked call ends, it ends either
\* normally with every chunk of its list owned by the visit or with Timeout,
\* and failVisit on the waiting visit leaves the call blocked as it was.
C14_WaitEndsByOwnershipOrDeadline ==
    /\ \A v \in TwoVisits : waiting[v].blocked ~> ~waiting[v].blocked
    /\ [][\A v \in TwoVisits :
              /\ (waiting[v].blocked /\ ~waiting'[v].blocked)
                 => /\ lastOp'.op = "waitForOwnership"
                    /\ lastOp'.visit = v
                    /\ \/ lastOp'.result = "Timeout"
                       \/ /\ lastOp'.result = "ok"
                          /\ \A c \in Elems(waiting[v].entry) :
                                 \E e \in chunks' : e.id = c /\ e.visitId = v
              /\ (/\ lastOp'.op = "failVisit"
                  /\ lastOp'.visit = v
                  /\ failVisit(v))
                 => UNCHANGED waiting
         ]_vars

\* C14, its case: failVisit was called on a visit whose waitForOwnership
\* call is blocked, and the call is still blocked.
C14_FailedWhileBlocked ==
    /\ lastOp.op = "failVisit"
    /\ waiting[lastOp.visit].blocked
    /\ Registered(lastOp.visit)
    /\ ~Valid(lastOp.visit)

\* the first id of the queue q that is a valid visit other than a, or
\* NullId
RECURSIVE FirstValidBut(_, _)
FirstValidBut(q, a) ==
    IF q = << >> THEN NullId
    ELSE IF Head(q) # a /\ Valid(Head(q)) THEN Head(q)
    ELSE FirstValidBut(Tail(q), a)

\* the bits of the blocks at the offsets in the list
BitsOf(offsets) ==
    {i \in BlockIndexes : \E j \in 1..Len(offsets) : offsets[j] = BlockBase + i * BLOCK_SIZE}

\* C15: hand-off with re-read. When the owner of a chunk that was never
\* marked usable ends while a valid visit w is queued, w becomes the owner
\* and the chunk stays not usable; the waitForOwnership call of w then
\* returns the chunk in toRead, and every block the chunk held is back in
\* the allocator.
C15_HandOffWithReRead ==
    [][/\ \A a \in FirstVisit, rb \in BOOLEAN, e \in chunks :
              (/\ lastOp'.op = "endVisit"
               /\ lastOp'.visit = a
               /\ lastOp'.rollback = rb
               /\ Registered(a)
               /\ e.visitId = a
               /\ ~e.usable
               /\ FirstValidBut(e.interestedParties, a) # NullId
               /\ endVisit(a, rb))
              => \E n \in chunks' :
                     /\ n.id = e.id
                     /\ n.visitId = FirstValidBut(e.interestedParties, a)
                     /\ ~n.usable
       /\ \A w \in Waiter, c \in OneChunk, e \in chunks :
              (/\ lastOp'.op = "waitForOwnership"
               /\ lastOp'.visit = w
               /\ lastOp'.result # "Timeout"
               /\ e.id = c
               /\ e.visitId = w
               /\ ~e.usable
               /\ \/ waitForOwnership(w, <<c>>)
                  \/ waiting[w].toWaitFor = <<c>> /\ waitWake(w))
              => /\ lastOp'.result = "ok"
                 /\ lastOp'.toRead = <<c>>
                 /\ [e EXCEPT !.blocks = << >>] \in chunks'
                 /\ \A i \in BitsOf(e.blocks) : ~bits'[i]
      ]_vars

\* C15, its case: the owner failed and ended with rollback, and its chunk,
\* not usable and with blocks, went to the visit that is blocked on it.
C15_HandedOverUnread ==
    /\ lastOp.op = "endVisit"
    /\ lastOp.rollback
    /\ \E ev \in lastOp.events, e \in chunks :
           /\ ev.kind = "rollback"
           /\ e.id = ev.chunk
           /\ e.visitId = ev.owner
           /\ ~e.usable
           /\ e.blocks # << >>
           /\ waiting[e.visitId].blocked
           /\ waiting[e.visitId].toWaitFor = <<e.id>>

\* C16: endVisit(w, rollback) for a visit w that owns no chunk leaves the
\* owner, the usable flag and the blocks of every descriptor as they were
\* and erases no descriptor, the block pool is unchanged, and
\* endVisit(w, rollback = true) returns false.
C16_EndOfNonOwnerChangesNothing ==
    [][\A w \in TwoVisits, rb \in BOOLEAN :
           (/\ lastOp'.op = "endVisit"
            /\ lastOp'.visit = w
            /\ lastOp'.rollback = rb
            /\ \A e \in chunks : e.visitId # w
            /\ endVisit(w, rb))
           => /\ \A e \in chunks :
                     \E n \in chunks' :
                         /\ n.id = e.id
                         /\ n.visitId = e.visitId
                         /\ n.usable = e.usable
                         /\ n.blocks = e.blocks
              /\ Cardinality(chunks') = Cardinality(chunks)
              /\ bits' = bits
              /\ rb => lastOp'.result = "false"
      ]_vars

\* C16, its case: a registered visit has ended while it is in the queue of
\* the one chunk it asks for, usable and with blocks, which another visit
\* still owns.
C16_WaiterEnded ==
    /\ lastOp.op = "endVisit"
    /\ lastOp.result = "true"
    /\ lastOp.events = {}
    /\ lastOp.visit \in FirstVisit
    /\ \E e \in chunks :
           /\ e.id \in OneChunk
           /\ lastOp.visit \in Elems(e.interestedParties)
           /\ e.visitId # lastOp.visit
           /\ Registered(e.visitId)
           /\ e.usable
           /\ e.blocks # << >>

\* C17: release to free. When endVisit(a) finds no valid visit in the queue
\* of a chunk that a owns, the blocks of the chunk are freed and its
\* descriptor is erased; a startVisit by a valid visit that names an id
\* without descriptor gets the chunk in toRead, as a new descriptor that the
\* visit owns and that is not usable, and never in toWaitFor.
C17_ReleaseToFree ==
    [][/\ \A a \in FirstVisit, rb \in BOOLEAN, e \in chunks :
              (/\ lastOp'.op = "endVisit"
               /\ lastOp'.visit = a
               /\ lastOp'.rollback = rb
               /\ Registered(a)
               /\ e.visitId = a
               /\ FirstValidBut(e.interestedParties, a) = NullId
               /\ endVisit(a, rb))
              => /\ \A n \in chunks' : n.id # e.id
                 /\ \A i \in BitsOf(e.blocks) : ~bits'[i]
       /\ \A v \in TwoVisits, c \in ChunkIds :
              (/\ lastOp'.op = "startVisit"
               /\ lastOp'.visit = v
               /\ Valid(v)
               /\ \A e \in chunks : e.id # c
               /\ startVisit(v, <<c>>))
              => /\ lastOp'.result = "ok"
                 /\ lastOp'.toRead = <<c>>
                 /\ lastOp'.toWaitFor = << >>
                 /\ \E n \in chunks' : n.id = c /\ n.visitId = v /\ ~n.usable
      ]_vars

\* C17, its case: a chunk was released while a visit was blocked on its
\* handle, and a startVisit has created it anew.
C17_CreatedAnewAfterRelease ==
    /\ lastOp.op = "startVisit"
    /\ lastOp.result = "ok"
    /\ \E w \in Waiter, c \in OneChunk :
           /\ w # lastOp.visit
           /\ waiting[w].blocked
           /\ waiting[w].toWaitFor = <<c>>
           /\ lastOp.toRead = <<c>>

\* the places (descriptor id, index) at which a descriptor lists block i
ListedAt(i) ==
    {p \in {e.id : e \in chunks} \X (1..MAX_BLOCKS_PER_CHUNK) :
        \E e \in chunks :
            /\ e.id = p[1]
            /\ p[2] <= Len(e.blocks)
            /\ e.blocks[p[2]] = BlockBase + i * BLOCK_SIZE}

\* C18: whenever no operation is in progress, bit i of the allocator is set
\* if and only if exactly one allocated descriptor lists block i among its
\* blocks, across chunk creation, allocation by the owner, hand-off, the
\* clear on re-read and release.
C18_BitsMatchBlocks ==
    \A i \in BlockIndexes : bits[i] = (Cardinality(ListedAt(i)) = 1)

\* C18, its case: a waiter got a chunk to read again, whose blocks are
\* gone, while its other chunk holds block 1 alone: block 0, taken before
\* block 1, has been freed.
C18_PoolAfterReRead ==
    /\ lastOp.op = "waitForOwnership"
    /\ lastOp.result = "ok"
    /\ \E e, o \in chunks :
           /\ lastOp.toRead = <<e.id>>
           /\ e.blocks = << >>
           /\ o.visitId = lastOp.visit
           /\ o.blocks = <<BlockBase + BLOCK_SIZE>>
    /\ ~bits[0]

\* the entries of the chain that starts at entry i, in order, at most n of
\* them
RECURSIVE ChainFrom(_, _, _)
ChainFrom(entries, i, n) ==
    IF i < 0 \/ n = 0 THEN << >>
    ELSE <<i>> \o ChainFrom(entries, entries[i].nextInChain, n - 1)

\* the allocated entries of the layout hs: those linked in the chain of a
\* bucket, bucket after bucket from bucket b on
RECURSIVE Allocated(_, _)
Allocated(hs, b) ==
    IF b >= 2 * SetEntries THEN << >>
    ELSE ChainFrom(hs.entries, hs.hashTable[b], SetEntries + 1)
         \o Allocated(hs, b + 1)

\* C19: no chunk id is held by two allocated descriptors: findOrInsert
\* never creates a second entry for an id that has one, also among ids that
\* share a bucket and for ids created again after an erase; every allocated
\* entry is found under its id and size counts them.
C19_OneDescriptorPerId ==
    LET a == Allocated(chunks, 0)
    IN  /\ \A p, q \in 1..Len(a) :
               p # q => chunks.entries[a[p]].id # chunks.entries[a[q]].id
        /\ \A p \in 1..Len(a) :
               /\ chunks.entries[a[p]].id \in SetIds
               /\ HashedSet_doFind(chunks, chunks.entries[a[p]].id) = a[p]
        /\ chunks.size = Len(a)

\* C19, its case: an id was inserted in an entry that had been erased, at
\* the end of the chain of a bucket it shares with another id: entry 1 is
\* followed by entry 0.
C19_RecreatedInSharedBucket ==
    /\ lastOp.op = "findOrInsert"
    /\ lastOp.result = "inserted"
    /\ \E b \in 0..(2 * SetEntries - 1) :
           /\ chunks.hashTable[b] = 1
           /\ chunks.entries[1].nextInChain = 0
           /\ chunks.entries[0].id = lastOp.visit

\* the zero bits among the padding bits of the last word
ZeroPadding(words) ==
    {i \in NumBits..(NUM_WORDS * BITS_PER_WORD - 1) :
        words[(i \div BITS_PER_WORD) + 1][(i % BITS_PER_WORD) + 1] = 0}

\* C20: for every content of the bitset and every k greater than the number
\* of zero bits among its NumBits valid bits, set(indexes, k) returns false
\* and leaves every bit as it was; the padding bits of a partly used last
\* word are never taken for free bits.
C20_FailedSetChangesNothing ==
    [][\A k \in 1..MaxSet :
           (/\ lastOp'.op = "set"
            /\ lastOp'.visit = k
            /\ k > Cardinality(ZeroBits(bits))
            /\ Bitset_set(k))
           => /\ lastOp'.result = "false"
              /\ bits' = bits
      ]_vars

\* C20, its case: set was refused on a content with fewer zero valid bits
\* than asked for, though with the zero padding bits there would have been
\* enough.
C20_RefusedDespitePadding ==
    /\ lastOp.op = "set"
    /\ lastOp.result = "false"
    /\ ZeroBits(bits) # {}
    /\ lastOp.visit > Cardinality(ZeroBits(bits))
    /\ lastOp.visit <= Cardinality(ZeroBits(bits)) + Cardinality(ZeroPadding(bits))

\* bit i of the words
BitAt(words, i) == words[(i \div BITS_PER_WORD) + 1][(i % BITS_PER_WORD) + 1]

\* the k lowest of the zero valid bits of the words
LowestZeroes(words, k) ==
    LET z == ZeroBits(words)
    IN  {i \in z : Cardinality({j \in z : j < i}) < k}

\* C21: for every content with at least k zero bits among the NumBits
\* valid bits, k >= 1, set(indexes, k) returns true, sets exactly the k
\* lowest zero bits and no other bit, padding included, and writes their
\* indexes in strictly ascending order, each in [0, NumBits).
C21_SetTakesLowestZeroes ==
    [][\A k \in 1..MaxSet :
           (/\ lastOp'.op = "set"
            /\ lastOp'.visit = k
            /\ k <= Cardinality(ZeroBits(bits))
            /\ Bitset_set(k))
           => LET taken == LowestZeroes(bits, k)
              IN  /\ lastOp'.result = "true"
                  /\ Len(lastOp'.toRead) = k
                  /\ \A p \in 1..k : lastOp'.toRead[p] \in 0..(NumBits - 1)
                  /\ \A p \in 1..(k - 1) : lastOp'.toRead[p] < lastOp'.toRead[p + 1]
                  /\ Elems(lastOp'.toRead) = taken
                  /\ \A i \in 0..(NUM_WORDS * BITS_PER_WORD - 1) :
                         BitAt(bits', i) = IF i \in taken THEN 1 ELSE BitAt(bits, i)
      ]_vars

\* C21, its case: set took zero bits of both words and left a zero valid
\* bit and a zero padding bit above them.
C21_SetAcrossWords ==
    /\ lastOp.op = "set"
    /\ lastOp.result = "true"
    /\ Len(lastOp.toRead) = 2
    /\ lastOp.toRead[1] < BITS_PER_WORD
    /\ lastOp.toRead[2] >= BITS_PER_WORD
    /\ ZeroBits(bits) # {}
    /\ ZeroPadding(bits) # {}

\* the words of the 8-bit patterns 0b10111011, 0b00111011 and 0b11111111,
\* bit 0 first
Pattern10111011 == << <<1, 1, 0, 1, 1, 1, 0, 1>> >>
Pattern00111011 == << <<1, 1, 0, 1, 1, 1, 0, 0>> >>
Pattern11111111 == << <<1, 1, 1, 1, 1, 1, 1, 1>> >>

\* on the 8-bit content p, set(indexes, 4) returns false and leaves the
\* bitset unchanged, and set(indexes, 3) returns true with the indexes
\* 2, 6, 7 and leaves 0b11111111
FourRefusedThreeTaken(p) ==
    /\ (/\ lastOp'.op = "set"
        /\ lastOp'.visit = 4
        /\ bits = p
        /\ Byte_set(4))
       => /\ lastOp'.result = "false"
          /\ bits' = bits
    /\ (/\ lastOp'.op = "set"
        /\ lastOp'.visit = 3
        /\ bits = p
        /\ Byte_set(3))
       => /\ lastOp'.result = "true"
          /\ lastOp'.toRead = <<2, 6, 7>>
          /\ bits' = Pattern11111111

\* C22 as stated: on an 8-bit bitset holding 0b10111011, allocate(4)
\* returns false and leaves the bitset unchanged, and allocate(3) then
\* returns true with out = [2, 6, 7] and the bitset 0b11111111.
C22_Pattern10111011 == [][FourRefusedThreeTaken(Pattern10111011)]_vars

\* C22 amended: the same on an 8-bit bitset holding 0b00111011, the pattern
\* with 5 bits set and the bits 2, 6 and 7 free.
C22_Pattern00111011 == [][FourRefusedThreeTaken(Pattern00111011)]_vars

\* C22, its case: set(indexes, 3) has taken the bits 2, 6 and 7 and left
\* the 8-bit bitset full.
C22_TookTwoSixSeven ==
    /\ lastOp.op = "set"
    /\ lastOp.visit = 3
    /\ lastOp.result = "true"
    /\ lastOp.toRead = <<2, 6, 7>>
    /\ bits = Pattern11111111


\* C23: reset clears exactly the bits at the given indexes and leaves every
\* other bit, padding included, unchanged; and for every content, the reset
\* of the indexes a successful set returned gives back the content the set
\* started from.
C23_ResetClearsGivenBits ==
    /\ [][\A indexes \in ResetLists :
              (/\ lastOp'.op = "reset"
               /\ lastOp'.toRead = indexes
               /\ Bitset_reset(indexes))
              => \A i \in 0..(NUM_WORDS * BITS_PER_WORD - 1) :
                     BitAt(bits', i) = IF i \in Elems(indexes) THEN 0 ELSE BitAt(bits, i)
         ]_vars
    /\ [][(/\ lastOp'.op = "resetTaken"
           /\ Bitset_resetTaken)
          => \A i \in 0..(NUM_WORDS * BITS_PER_WORD - 1) :
                 BitAt(bits', i) = IF i \in Elems(lastOp.toRead) THEN 0 ELSE BitAt(bits, i)
         ]_vars
    /\ [](\A k \in 1..MaxSet :
              LET r == detail_set(bits, k, NumBits)
              IN  r.ok => detail_reset(r.words, r.indexes, NumBits).words = bits)

\* C23, its case: the reset of the indexes a set had taken in both words,
\* which leaves those bits clear again.
C23_TakenBitsGivenBack ==
    /\ lastOp.op = "resetTaken"
    /\ Len(lastOp.toRead) = 2
    /\ lastOp.toRead[1] < BITS_PER_WORD
    /\ lastOp.toRead[2] >= BITS_PER_WORD
    /\ ZeroBits(bits) = Elems(lastOp.toRead)


\* the size values of the ring buffer from _front on, oldest first
RECURSIVE RingContent(_, _, _)
RingContent(f, i, n) ==
    IF n = 0 THEN << >>
    ELSE <<f.buffer[i + 1]>> \o RingContent(f, (i + 1) % FifoEntries, n - 1)

\* C24: the Fifo is a queue of capacity NumEntries: it holds the values
\* enqueued and not yet dequeued since the last clear in their order, also
\* around the end of the buffer, a successful dequeue returns the oldest of
\* them, empty() holds iff there are none and full() iff there are
\* NumEntries.
C24_FifoIsBoundedQueue ==
    /\ [](/\ RingContent(chunks, chunks.front, chunks.size) = bits
          /\ Len(bits) <= FifoEntries
          /\ Fifo_empty(chunks) <=> (Len(bits) = 0)
          /\ Fifo_full(chunks) <=> (Len(bits) = FifoEntries))
    /\ [][(/\ lastOp'.op = "dequeue"
           /\ bits # << >>
           /\ FifoDequeue)
          => /\ lastOp'.result = "none"
             /\ lastOp'.visit = Head(bits)
             /\ bits' = Tail(bits)
         ]_vars
    /\ [][\A elt \in FifoValues :
              (/\ lastOp'.op = "enqueue"
               /\ lastOp'.visit = elt
               /\ Len(bits) < FifoEntries
               /\ FifoEnqueue(elt))
              => /\ lastOp'.result = "none"
                 /\ bits' = Append(bits, elt)
         ]_vars

\* C24, its case: a dequeue returned the value in the last slot of the
\* buffer, which moved _front around to slot 0, where a younger and different
\* value, enqueued after _back went around, is next.
C24_DequeuedAroundTheEnd ==
    /\ lastOp.op = "dequeue"
    /\ lastOp.result = "none"
    /\ chunks.front = 0
    /\ chunks.size > 0
    /\ lastOp.visit # bits[1]

\* C25: enqueue on a full Fifo and dequeue on an empty one throw
\* LengthError and leave the buffer, the size, the front and the back as
\* they were.
C25_FailedFifoCallChangesNothing ==
    /\ [][\A elt \in FifoValues :
              (/\ lastOp'.op = "enqueue"
               /\ lastOp'.visit = elt
               /\ Fifo_full(chunks)
               /\ FifoEnqueue(elt))
              => /\ lastOp'.result = "LengthError"
                 /\ chunks' = chunks
                 /\ bits' = bits
         ]_vars
    /\ [][(/\ lastOp'.op = "dequeue"
           /\ Fifo_empty(chunks)
           /\ FifoDequeue)
          => /\ lastOp'.result = "LengthError"
             /\ chunks' = chunks
             /\ bits' = bits
         ]_vars

\* C25, its case: an enqueue was refused by a full Fifo whose content goes
\* around the end of the buffer.
C25_RefusedByFullFifo ==
    /\ lastOp.op = "enqueue"
    /\ lastOp.result = "LengthError"
    /\ chunks.size = FifoEntries
    /\ chunks.front > 0
    /\ lastOp.visit \notin Elems(bits)


C27_FindOrInsertOutcomes ==
    [][\A id \in SetIds :
           (/\ lastOp'.op = "findOrInsert"
            /\ lastOp'.visit = id
            /\ SetFindOrInsert(id))
           => LET ptr == lastOp'.toRead[1]
                  inserted == lastOp'.result # "found"
                  present == id \in visits
                  isFull == Cardinality(visits) = SetEntries
              IN  /\ present
                         => /\ ~inserted
                            /\ ptr >= 0
                            /\ chunks.entries[ptr].id = id
                            /\ chunks' = chunks
                  /\ (~present /\ ~isFull)
                         => /\ inserted
                            /\ ptr >= 0
                            /\ chunks'.entries[ptr].id = id
                            /\ chunks'.size = chunks.size + 1
                            /\ HashedSet_doFind(chunks', id) = ptr
                            /\ \A o \in SetIds \ {id} :
                                   HashedSet_doFind(chunks', o) = HashedSet_doFind(chunks, o)
                  /\ (~present /\ isFull)
                         => /\ inserted
                            /\ ptr < 0
                            /\ chunks' = chunks
                  /\ (ptr < 0) <=> (inserted /\ isFull)
      ]_vars

\* C27, its case: findOrInsert found an id in a full set.
C27_FoundInFullSet ==
    /\ lastOp.op = "findOrInsert"
    /\ lastOp.result = "found"
    /\ chunks.size = SetEntries
    /\ chunks.free < 0


\* the block indexes of an offset list
IndexesOf(offsets) == {(offsets[j] - BlockBase) \div BLOCK_SIZE : j \in 1..Len(offsets)}

\* C28: allocate(n, out) fails with OutOfRange when n exceeds
\* MAX_BLOCKS_PER_CHUNK and with bad_alloc when n is within it and fewer
\* than n blocks are free, and leaves the bitmap unchanged in both cases;
\* with n >= 1 within the cap and n blocks free it succeeds; on success it
\* returns n distinct offsets baseOffset + i * BLOCK_SIZE of blocks i that
\* were free and sets the bits of these blocks and no others; free(n,
\* offsets) clears the bits (offset - baseOffset) / BLOCK_SIZE and no others.
C28_AllocateAndFree ==
    /\ [][\A n \in 0..(MAX_BLOCKS_PER_CHUNK + 1), ndebug \in BOOLEAN :
              (/\ lastOp'.op = "allocate"
               /\ lastOp'.visit = n
               /\ lastOp'.rollback = ndebug
               /\ Alloc(n, ndebug))
              => LET free == ZeroBits(bits)
                     out == lastOp'.toRead
                 IN  /\ n > MAX_BLOCKS_PER_CHUNK
                            => lastOp'.result = "OutOfRange" /\ bits' = bits
                     /\ (n <= MAX_BLOCKS_PER_CHUNK /\ Cardinality(free) < n)
                            => lastOp'.result = "bad_alloc" /\ bits' = bits
                     /\ (n >= 1 /\ n <= MAX_BLOCKS_PER_CHUNK /\ Cardinality(free) >= n)
                            => lastOp'.result = "none"
                     /\ lastOp'.result = "none"
                            => /\ Len(out) = n
                               /\ \A p, q \in 1..n : p # q => out[p] # out[q]
                               /\ \A p \in 1..n :
                                      \E i \in free : out[p] = BlockBase + i * BLOCK_SIZE
                               /\ \A i \in 0..(NUM_WORDS * BITS_PER_WORD - 1) :
                                      BitAt(bits', i) =
                                          IF i \in IndexesOf(out) THEN 1 ELSE BitAt(bits, i)
         ]_vars
    /\ [][\A indexes \in ResetLists :
              (/\ lastOp'.op = "free"
               /\ lastOp'.toRead = OffsetsOf(indexes)
               /\ Free(indexes))
              => \A i \in 0..(NUM_WORDS * BITS_PER_WORD - 1) :
                     BitAt(bits', i) =
                         IF i \in IndexesOf(lastOp'.toRead) THEN 0 ELSE BitAt(bits, i)
         ]_vars
    /\ [][(/\ lastOp'.op = "freeTaken"
           /\ FreeTaken)
          => \A i \in 0..(NUM_WORDS * BITS_PER_WORD - 1) :
                 BitAt(bits', i) =
                     IF i \in IndexesOf(lastOp.toRead) THEN 0 ELSE BitAt(bits, i)
         ]_vars

\* C28, its case: allocate of two blocks failed with bad_alloc on a pool
\* with one block free, whose bitset has zero padding bits.
C28_TwoAskedOneFree ==
    /\ lastOp.op = "allocate"
    /\ lastOp.visit = 2
    /\ lastOp.result = "bad_alloc"
    /\ Cardinality(ZeroBits(bits)) = 1
    /\ ZeroPadding(bits) # {}

\* C29: allocate(0, out) succeeds for every bitmap content, also of a full
\* pool, without a failed assertion, and leaves the bitmap unchanged.
C29_AllocateNothing ==
    [][\A ndebug \in BOOLEAN :
           (/\ lastOp'.op = "allocate"
            /\ lastOp'.visit = 0
            /\ Alloc(0, ndebug))
           => /\ lastOp'.result = "none"
              /\ bits' = bits
      ]_vars


\* C30: failVisit(v) raises nothing and changes no descriptor, queue, block
\* or waiter; on an unknown v it changes nothing at all; on a registered v
\* it sets the failed flag of v and nothing else, so v stays registered and
\* a second call changes nothing; afterwards isVisitInFlight(v) is false,
\* and a visit that is not in flight is in flight again only by a
\* registerVisit of it while it is not registered, that is after it was
\* ended.
C30_FailVisitIdempotentTotal ==
    /\ [][\A v \in TwoVisits :
              (/\ lastOp'.op = "failVisit"
               /\ lastOp'.visit = v
               /\ failVisit(v))
              => /\ lastOp'.result = "ok"
                 /\ chunks' = chunks
                 /\ bits' = bits
                 /\ waiting' = waiting
                 /\ ~Registered(v) => visits' = visits
                 /\ Registered(v)
                        => visits' = {IF x.id = v THEN [x EXCEPT !.failed = TRUE] ELSE x :
                                         x \in visits}
                 /\ (Registered(v) /\ ~Valid(v)) => visits' = visits
                 /\ ~isVisitInFlight(v)'
         ]_vars
    /\ [][\A v \in TwoVisits :
              (~isVisitInFlight(v) /\ isVisitInFlight(v)')
              => /\ lastOp'.op = "registerVisit"
                 /\ lastOp'.visit = v
                 /\ ~Registered(v)
         ]_vars

\* C30, its case: failVisit was called on the owner of a chunk another
\* visit is queued for; the visit is registered and failed, and the other
\* visit is still valid and queued.
C30_OwnerFailed ==
    /\ lastOp.op = "failVisit"
    /\ Registered(lastOp.visit)
    /\ ~isVisitInFlight(lastOp.visit)
    /\ \E c \in chunks :
           /\ c.visitId = lastOp.visit
           /\ \E w \in Elems(c.interestedParties) : w # lastOp.visit /\ Valid(w)


\* C31: endVisit(v, rollback) on a visit that is not registered returns
\* false, raises nothing, makes no notifyAll and leaves the tracker, every
\* descriptor with its queue, the block pool and every waiter as they were,
\* also when the queue of a descriptor still holds v.
C31_EndOfUnknownVisitChangesNothing ==
    [][\A v \in TwoVisits, rb \in BOOLEAN :
           (/\ lastOp'.op = "endVisit"
            /\ lastOp'.visit = v
            /\ lastOp'.rollback = rb
            /\ ~Registered(v)
            /\ endVisit(v, rb))
           => /\ lastOp'.result = "false"
              /\ ~lastOp'.notified
              /\ lastOp'.events = {}
              /\ visits' = visits
              /\ chunks' = chunks
              /\ bits' = bits
              /\ waiting' = waiting
      ]_vars

\* C31, its case: endVisit without rollback returned false where no visit
\* is ever marked failed, so the visit was not registered, while the queue of
\* a descriptor holds it and another visit is blocked.
C31_EndedAgainWhileQueued ==
    /\ lastOp.op = "endVisit"
    /\ ~lastOp.rollback
    /\ lastOp.result = "false"
    /\ ~Registered(lastOp.visit)
    /\ \E c \in chunks : lastOp.visit \in Elems(c.interestedParties)
    /\ \E w \in TwoVisits : waiting[w].blocked


\* The mix of the specification on 16-bit limbs, all arithmetic modulo 2^64:
\* ~k, a + b, k << n, k >> n, a ^ b and k * 21
MixNot(k) == [i \in 1..4 |-> 65535 - k[i]]

RECURSIVE MixAddFrom(_, _, _, _)
MixAddFrom(a, b, i, c) ==
    IF i > 4 THEN << >>
    ELSE <<(a[i] + b[i] + c) % 65536>>
         \o MixAddFrom(a, b, i + 1, (a[i] + b[i] + c) \div 65536)

MixAdd(a, b) == MixAddFrom(a, b, 1, 0)

MixLimb(k, i) == IF i >= 1 /\ i <= 4 THEN k[i] ELSE 0

MixShl(k, n) ==
    LET q == n \div 16
        r == n % 16
    IN  [i \in 1..4 |->
            ((MixLimb(k, i - q) * (2 ^ r)) % 65536)
            + (MixLimb(k, i - q - 1) \div (2 ^ (16 - r)))]

MixShr(k, n) ==
    LET q == n \div 16
        r == n % 16
    IN  [i \in 1..4 |->
            (MixLimb(k, i + q) \div (2 ^ r))
            + ((MixLimb(k, i + q + 1) % (2 ^ r)) * (2 ^ (16 - r)))]

RECURSIVE MixXorLimb(_, _, _)
MixXorLimb(x, y, n) ==
    IF n = 0 THEN 0
    ELSE ((x + y) % 2) + 2 * MixXorLimb(x \div 2, y \div 2, n - 1)

MixXor(a, b) == [i \in 1..4 |-> MixXorLimb(a[i], b[i], 16)]

RECURSIVE MixTimes21From(_, _, _)
MixTimes21From(k, i, c) ==
    IF i > 4 THEN << >>
    ELSE <<(21 * k[i] + c) % 65536>>
         \o MixTimes21From(k, i + 1, (21 * k[i] + c) \div 65536)

\* the Wang mix as specified: k = ~k + (k << 18); k ^= k >> 31; k *= 21;
\* k ^= k >> 11; k += k << 6; k ^= k >> 22; the low 32 bits as two limbs
WangMix(k) ==
    LET k1 == MixAdd(MixNot(k), MixShl(k, 18))
        k2 == MixXor(k1, MixShr(k1, 31))
        k3 == MixTimes21From(k2, 1, 0)
        k4 == MixXor(k3, MixShr(k3, 11))
        k5 == MixAdd(k4, MixShl(k4, 6))
        k6 == MixXor(k5, MixShr(k5, 22))
    IN  <<k6[1], k6[2]>>

\* a signed id reinterpreted as unsigned, by its limbs
IdLimbs(id) ==
    IF id >= 0 THEN <<id, 0, 0, 0>> ELSE <<65536 + id, 65535, 65535, 65535>>

\* the number with the bits h[from + 1 .. from + 16], lowest first
RECURSIVE LimbOfBits(_, _, _)
LimbOfBits(h, from, n) ==
    IF n = 0 THEN 0
    ELSE h[from + 1] + 2 * LimbOfBits(h, from + 1, n - 1)

\* C32: for every key the hash is the low 32 bits of the specified Wang mix
\* computed modulo 2^64; a signed id is hashed as the unsigned key with the
\* same bits, and its bucket is the hash masked with 2*NumEntries - 1, a
\* number from 0 to 2*NumEntries - 1.
C32_HashIsWangMix ==
    /\ [][(/\ lastOp'.op = "hash"
           /\ HashKey)
          => /\ Len(lastOp'.toRead) = 32
             /\ <<LimbOfBits(lastOp'.toRead, 0, 16), LimbOfBits(lastOp'.toRead, 16, 16)>>
                    = WangMix(bits)
         ]_vars
    /\ [][\A id \in HashIds, l \in 1..MaxLogEntries :
              (/\ lastOp'.op = "bucket"
               /\ lastOp'.visit = id
               /\ lastOp'.toWaitFor = <<2 ^ l>>
               /\ BucketOfId(id, 2 ^ l))
              => /\ lastOp'.toRead[1] \in 0..(2 * (2 ^ l) - 1)
                 /\ lastOp'.toRead[1] = WangMix(IdLimbs(id))[1] % (2 * (2 ^ l))
                 /\ <<LimbOfBits(hash(id), 0, 16), LimbOfBits(hash(id), 16, 16)>>
                        = WangMix(IdLimbs(id))
         ]_vars

\* C32, its case: the hash of a key with the top bit set and nothing below
\* it, 2^63, whose mix wraps around in the first addition.
C32_HashedTopBitKey ==
    /\ lastOp.op = "hash"
    /\ bits = <<0, 0, 0, 32768>>
    /\ LimbOfBits(lastOp.toRead, 0, 16) + LimbOfBits(lastOp.toRead, 16, 16) > 0


\* C33: in a hand-off the commit or rollback of the chunk runs before the
\* owner of the descriptor is changed: at every Chunk::commit and
\* Chunk::rollback call that endVisit(v) makes, the descriptor still names
\* v, the departing visit, as its owner.
C33_CommitBeforeOwnerChange ==
    [][\A v \in HandoffVisits, rb \in BOOLEAN :
           (/\ lastOp'.op = "endVisit"
            /\ lastOp'.visit = v
            /\ lastOp'.rollback = rb
            /\ endVisit(v, rb))
           => \A ev \in lastOp'.events : ev.owner = v
      ]_vars


\* C34: endVisit calls notifyAll on the ownership condition exactly when a
\* chunk changed owner in the call: the threads blocked on the condition
\* are notified within the same step when some descriptor present before
\* and after has a new owner, and no thread is notified when the call only
\* erased descriptors or the visit owned nothing.
OwnerChanged ==
    \E e \in chunks : \E f \in chunks' : f.id = e.id /\ f.visitId # e.visitId

C34_NotifyIffOwnerChanged ==
    [][\A v \in TwoVisits, rb \in BOOLEAN :
           (/\ lastOp'.op = "endVisit"
            /\ lastOp'.visit = v
            /\ lastOp'.rollback = rb
            /\ endVisit(v, rb))
           => /\ lastOp'.notified <=> OwnerChanged
              /\ waiting' = IF OwnerChanged THEN notifyAll(waiting) ELSE waiting
      ]_vars

\* an endVisit has just handed a chunk to a visit blocked in
\* waitForOwnership on it, and that thread is notified
C34_WaiterGivenChunkIsNotified ==
    /\ lastOp.op = "endVisit"
    /\ lastOp.notified
    /\ \E w \in TwoVisits :
           /\ waiting[w].blocked
           /\ waiting[w].notified
           /\ \E j \in 1..Len(waiting[w].toWaitFor) :
                  \E ev \in lastOp.events :
                      ev.chunk = waiting[w].toWaitFor[j] /\ ev.owner = w


\* the entries of the free list of the layout hs, from _free on, cut after
\* NumEntries + 1 entries
FreeList(hs) == ChainFrom(hs.entries, hs.free, SetEntries + 1)

\* no index is twice in the sequence s
NoRepeat(s) == \A j, k \in 1..Len(s) : j # k => s[j] # s[k]

\* C35: in every state of a HashedSet the free list from _free is an
\* acyclic list of NumEntries - size entries, the chains of the buckets hold
\* size entries together, no entry is in the free list and in a chain or in
\* two chains, and the id of every entry in the chain of a bucket hashes to
\* that bucket.
C35_FreeListAndChainsPartition ==
    LET fl == FreeList(chunks)
        al == Allocated(chunks, 0)
    IN  /\ Len(fl) = SetEntries - chunks.size
        /\ NoRepeat(fl)
        /\ Len(al) = chunks.size
        /\ NoRepeat(al)
        /\ Elems(fl) \cap Elems(al) = {}
        /\ Elems(fl) \cup Elems(al) = 0..(SetEntries - 1)
        /\ \A b \in 0..(2 * SetEntries - 1) :
               \A i \in Elems(ChainFrom(chunks.entries, chunks.hashTable[b],
                                        SetEntries + 1)) :
                   /\ chunks.entries[i].id \in SetIds
                   /\ SetBucket[chunks.entries[i].id] = b

\* the set was full and an erase has just returned one entry to the empty
\* free list, the other entries still linked in their chains
C35_ErasedFromFullSet ==
    /\ lastOp.op = "erase"
    /\ lastOp.result = "true"
    /\ chunks.size = SetEntries - 1
    /\ chunks.free >= 0
    /\ Len(Allocated(chunks, 0)) = SetEntries - 1


C37_TimeoutChangesNothing ==
    [][\A v \in Waiter :
           (/\ lastOp'.op = "waitForOwnership"
            /\ lastOp'.visit = v
            /\ lastOp'.result = "Timeout"
            /\ waitTimeout(v))
           => /\ Elems(waiting[v].entry) \subseteq Elems(lastOp'.toWaitFor)
              /\ lastOp'.toRead = << >>
      ]_vars


\* a visit that owns chunk 100, with blocks, and one that owns chunk 101,
\* and a third visit that asks only for chunks that exist and waits
\* for the chunks it asked for
LastVisit == {NumHandoffVisits}
LastChunk == {101}

\* visit v is in the queue of chunk c or has been handed it
Awaits(v, c) ==
    LET d == find(chunks, c)
    IN  d # Null /\ (d.visitId = v \/ v \in Elems(d.interestedParties))

NextPartial ==
    \/ \E v \in FirstVisit \cup Waiter \cup LastVisit : registerVisit(v)
    \/ \E v \in FirstVisit, c \in OneChunk : startVisit(v, <<c>>)
    \/ \E v \in LastVisit, c \in LastChunk : startVisit(v, <<c>>)
    \/ \E v \in Waiter, c \in ChunkIds :
           find(chunks, c) # Null /\ startVisit(v, <<c>>)
    \/ \E v \in FirstVisit \cup LastVisit, rb \in BOOLEAN : endVisit(v, rb)
    \/ \E v \in Waiter, tw \in ChunkLists :
           (\A j \in 1..Len(tw) : Awaits(v, tw[j])) /\ waitForOwnership(v, tw)
    \/ \E v \in Waiter : waitWake(v)
    \/ \E v \in Waiter : waitTimeout(v)
    \/ \E c \in OneChunk, n \in BlockCounts : allocateBlocks(c, n)

SpecPartial == Init /\ [][NextPartial]_vars


\* visit v owns chunk c
Owns(v, c) ==
    LET d == find(chunks, c)
    IN  d # Null /\ d.visitId = v

\* a waitForOwnership(v, <<c>>) call that finds every chunk owned on entry
\* returns at once, without a wait, whatever the deadline
OwnedOnEntryReturns ==
    \A v \in TwoVisits, c \in ChunkIds :
        (/\ lastOp'.op = "waitForOwnership"
         /\ lastOp'.visit = v
         /\ Owns(v, c)
         /\ waitForOwnership(v, <<c>>))
        => lastOp'.result = "ok" /\ ~waiting'[v].blocked

\* C38 as stated: waitForOwnership throws Timeout only when a chunk left in
\* toWaitFor is not owned by the visit, also when an endVisit handed the
\* last chunk over after the wait expired; and a call whose chunks are all
\* owned on entry returns normally.
C38_TimeoutOnlyWhenNotOwner ==
    [][/\ \A v \in TwoVisits :
              (/\ lastOp'.op = "waitForOwnership"
               /\ lastOp'.visit = v
               /\ lastOp'.result = "Timeout"
               /\ waitTimeout(v))
              => \E j \in 1..Len(lastOp'.toWaitFor) :
                     ~Owns(v, lastOp'.toWaitFor[j])
       /\ OwnedOnEntryReturns
      ]_vars

\* C38 amended: waitForOwnership throws Timeout without another look at the
\* owners: a chunk left in toWaitFor is not owned by the visit, or an
\* endVisit has handed chunks over and notified the thread since the last
\* checkForOwnership of the call; and a call whose chunks are all owned on
\* entry returns normally.
C38_TimeoutAfterLastCheck ==
    [][/\ \A v \in TwoVisits :
              (/\ lastOp'.op = "waitForOwnership"
               /\ lastOp'.visit = v
               /\ lastOp'.result = "Timeout"
               /\ waitTimeout(v))
              => /\ lastOp'.toWaitFor = waiting[v].toWaitFor
                 /\ lastOp'.toWaitFor # << >>
                 /\ \/ \E j \in 1..Len(lastOp'.toWaitFor) :
                           ~Owns(v, lastOp'.toWaitFor[j])
                    \/ waiting[v].notified
       /\ OwnedOnEntryReturns
      ]_vars

\* a call has thrown Timeout although the visit owns every chunk left in
\* toWaitFor: the hand-off came after the last check of the call
C38_TimedOutAsOwner ==
    /\ lastOp.op = "waitForOwnership"
    /\ lastOp.result = "Timeout"
    /\ lastOp.toWaitFor # << >>
    /\ \A j \in 1..Len(lastOp.toWaitFor) : Owns(lastOp.visit, lastOp.toWaitFor[j])


\* two visits with chunks, one chunk with blocks, that fail and end in any
\* order, one of them waiting for the chunk with blocks
NextLeak ==
    \/ \E v \in TwoVisits : registerVisit(v)
    \/ \E v \in TwoVisits : failVisit(v)
    \/ \E v \in TwoVisits, c \in ChunkIds : startVisit(v, <<c>>)
    \/ \E v \in TwoVisits, rb \in BOOLEAN : endVisit(v, rb)
    \/ \E v \in Waiter, c \in OneChunk : waitForOwnership(v, <<c>>)
    \/ \E v \in Waiter : waitWake(v)
    \/ \E v \in Waiter : waitTimeout(v)
    \/ \E c \in OneChunk, n \in BlockCounts : allocateBlocks(c, n)

SpecLeak == Init /\ [][NextLeak]_vars

\* C39: no leak: in every state in which no visit is registered the set of
\* descriptors is empty, so that all its entries are free, and every bit of
\* the bitmap of the block allocator is clear.
C39_NothingLeftWithoutVisits ==
    visits = {} => /\ chunks = {}
                   /\ DataSpace(chunks) = MAX_CHUNKS
                   /\ \A i \in BlockIndexes : ~bits[i]

\* the last registered visit has just been ended, with a commit
C39_LastVisitEnded ==
    /\ lastOp.op = "endVisit"
    /\ lastOp.result = "true"
    /\ lastOp.visit \in Waiter
    /\ visits = {}


\* a visit that asks for chunks in one registration only: the second visit
\* calls startVisit only as long as the last visit is not registered; the
\* last visit registers while the second is not in flight and never ends.
\* Once the last visit is registered, the second visit has named no chunk
\* in a startVisit call since its most recent registerVisit.
NextStale ==
    \/ \E v \in FirstVisit \cup Waiter : registerVisit(v)
    \/ \E v \in LastVisit, w \in Waiter : ~Registered(w) /\ registerVisit(v)
    \/ \E v \in FirstVisit, c \in ChunkIds : startVisit(v, <<c>>)
    \/ \E v \in Waiter, c \in ChunkIds, m \in LastVisit :
           ~Registered(m) /\ startVisit(v, <<c>>)
    \/ \E v \in FirstVisit \cup Waiter, rb \in BOOLEAN : endVisit(v, rb)
    \/ \E v \in FirstVisit \cup Waiter : failVisit(v)

SpecStale == Init /\ [][NextStale]_vars

\* C40: a visit becomes owner only of chunks it asked for in its current
\* registration: a visit that has named no chunk in a startVisit call since
\* its most recent registerVisit, as the second visit of SpecStale once the
\* last visit is registered, owns no chunk; interest it registered before
\* it was ended gets it none.
C40_OwnerAskedInThisRegistration ==
    \A m \in LastVisit, w \in Waiter :
        Registered(m) => \A e \in chunks : e.visitId # w

=============================================================================
